---- MODULE Spec2Model ----
(***************************************************************************)
(* Authentication protocol of the Task Manager: the Issuer (auth-service), *)
(* its credential codec (HS256 JWT, golang-jwt v5) and credential store    *)
(* (sqlite table users), and the Authorization Middleware of the task      *)
(* service, which verifies every request against the Issuer over HTTP.     *)
(* Also the notification service: its Subscription Registry (the map       *)
(* ns.webhooks) and its Event Dispatcher (triggerWebhooks).                *)
(***************************************************************************)
EXTENDS Integers, Sequences, FiniteSets, TLC

VARIABLES
    users,          \* rows of table users, in insertion order (row i has id i)
    proc,           \* the Issuer process: "down" or "serving"
    authAttempts,   \* the Issuer's counter vector auth_attempts_total (/metrics)
    now,            \* wall clock, in whole seconds (the precision of a NumericDate)
    resp,           \* the last response of the Issuer, with the request it answers
    reqs,           \* task service: one record per request being served
    tasks,          \* rows of table tasks
    nextTaskID,     \* AUTOINCREMENT sequence of table tasks
    taskLog,        \* task service: the records written with package log
    webhooks,       \* notification service: map event -> list of webhook URLs
    hubProc,        \* notification service process: "serving" or "crashed"
    subs,           \* notification service: one record per subscribe request
    pubs,           \* notification service: one record per request that publishes
    probe,          \* the last answer to GET /health of any of the three services
    deploy          \* the blue-green deployment script: its position and effects

vars == <<users, proc, authAttempts, now, resp, reqs, tasks, nextTaskID, taskLog,
          webhooks, hubProc, subs, pubs, probe, deploy>>

issuerVars == <<users, proc, authAttempts, now, resp>>
gateVars == <<reqs, tasks, nextTaskID, taskLog>>
hubVars == <<webhooks, hubProc, subs, pubs>>
opsVars == <<probe, deploy>>

-----------------------------------------------------------------------------
(* Bounds of the model *)

MaxSkew == 1        \* seconds sampled after time 0 and after the ttl boundary
MaxUsers == 2       \* rows of table users
MaxAttempts == 1    \* total of the auth_attempts_total counters of one process
MaxTasks == 1       \* rows ever inserted into table tasks

(* Program constants *)

TokenTTL == 86400   \* 24 * time.Hour, in seconds
BearerLen == 7      \* len("Bearer ")
DeliveryTimeout == 10   \* http.Client{Timeout: 10 * time.Second}, in seconds
ValidateTimeout == 5    \* http.Client{Timeout: 5 * time.Second}, in seconds

StatusOK == 200
StatusCreated == 201
StatusNoContent == 204
StatusBadRequest == 400
StatusUnauthorized == 401
StatusNotFound == 404
StatusConflict == 409
StatusInternalServerError == 500

-----------------------------------------------------------------------------
(* Values *)

jwtSecret == "your-super-secret-jwt-key-change-in-production"
otherKey == "not-the-issuer-secret"

None == [kind |-> "none"]
BadJSON == [kind |-> "badjson"]

Usernames == {"admin", "alice", "bob", ""}
Emails == {"admin@taskmanager.com", "alice@example.com", "bob@example.com", ""}
Passwords == {"admin123", "p1", ""}

\* The instants the clock is sampled at: around 0 and around the 24 h boundary.
Instants == (0 .. MaxSkew) \cup ((TokenTTL - 1) .. (TokenTTL + MaxSkew))

\* bcrypt digest: a one-way value, never the passphrase itself.
GenerateFromPassword(pw) == [bcrypt |-> pw]
CompareHashAndPassword(hash, pw) == hash = GenerateFromPassword(pw)


-----------------------------------------------------------------------------
(* Credential Codec: HS256 JWT of golang-jwt v5 *)

\* HMAC-SHA256 of the signing input under a key, as an injective function.
SignedString(claims, key) == [of |-> claims, key |-> key]

Garbage == [kind |-> "garbage"]     \* a string that is not three dot-separated segments

Mint(userID, username, exp, iat, nbf, key) ==
    LET claims == [user_id |-> userID, username |-> username,
                   exp |-> exp, iat |-> iat, nbf |-> nbf]
    IN  [kind |-> "jwt", claims |-> claims, sig |-> SignedString(claims, key)]

generateToken_nbfAhead(userID, username, t1, t2, t3) ==
    Mint(userID, username, t1 + TokenTTL, t2, t3 + 1, jwtSecret)

\* generateToken reads the clock three times: t1 for ExpiresAt, t2 for IssuedAt,
\* t3 for NotBefore.
generateToken(userID, username, t1, t2, t3) ==
    Mint(userID, username, t1 + TokenTTL, t2, t3, jwtSecret)

\* A header value: `pre` copies of "Bearer " followed by a token string (or nothing).
EmptyHeader == [pre |-> 0, tok |-> None]
HeaderLen(h) == BearerLen * h.pre + (IF h.tok = None THEN 0 ELSE 1)
Bearer(tok) == [pre |-> 1, tok |-> tok]
AddBearer_asIs(h) == h
AddBearer(h) == [h EXCEPT !.pre = @ + 1]

\* if len(tokenString) > 7 && tokenString[:7] == "Bearer " { tokenString = tokenString[7:] }
StripBearer(h) ==
    IF HeaderLen(h) > BearerLen /\ h.pre >= 1 THEN [h EXCEPT !.pre = @ - 1] ELSE h

ParseError(reason) == [ok |-> FALSE, reason |-> reason]

parseToken_noSignature(s, t) ==
    IF s.pre # 0 \/ s.tok.kind # "jwt" THEN ParseError("malformed")
    ELSE IF ~(t < s.tok.claims.exp) THEN ParseError("expired")
    ELSE IF t < s.tok.claims.nbf THEN ParseError("not-yet-valid")
    ELSE [ok |-> TRUE, claims |-> s.tok.claims]

parseToken_expInclusive(s, t) ==
    IF s.pre # 0 \/ s.tok.kind # "jwt" THEN ParseError("malformed")
    ELSE IF s.tok.sig # SignedString(s.tok.claims, jwtSecret) THEN ParseError("bad-signature")
    ELSE IF t > s.tok.claims.exp THEN ParseError("expired")
    ELSE IF t < s.tok.claims.nbf THEN ParseError("not-yet-valid")
    ELSE [ok |-> TRUE, claims |-> s.tok.claims]

\* jwt.ParseWithClaims at time t: segments, then signature, then exp and nbf.
\* (iat is not verified by default in v5.)
parseToken(s, t) ==
    IF s.pre # 0 \/ s.tok.kind # "jwt" THEN ParseError("malformed")
    ELSE IF s.tok.sig # SignedString(s.tok.claims, jwtSecret) THEN ParseError("bad-signature")
    ELSE IF ~(t < s.tok.claims.exp) THEN ParseError("expired")
    ELSE IF t < s.tok.claims.nbf THEN ParseError("not-yet-valid")
    ELSE [ok |-> TRUE, claims |-> s.tok.claims]

-----------------------------------------------------------------------------
(* Credential Store: table users (username UNIQUE, email UNIQUE) *)

Rows(rows) == {rows[i] : i \in 1 .. Len(rows)}

\* SELECT ... FROM users WHERE username = ?
SelectByUsername(rows, username) == {u \in Rows(rows) : u.username = username}
\* SELECT ... FROM users WHERE id = ?
SelectByID(rows, id) == {u \in Rows(rows) : u.id = id}

ViolatesUnique_emailOnly(rows, username, email) ==
    \E u \in Rows(rows) : u.email = email

ViolatesUnique_usernameOnly(rows, username, email) ==
    \E u \in Rows(rows) : u.username = username

\* The UNIQUE constraints of the table, checked by the INSERT itself.
ViolatesUnique(rows, username, email) ==
    \E u \in Rows(rows) : u.username = username \/ u.email = email

\* INSERT INTO users (username, email, password_hash): the new row gets the
\* next AUTOINCREMENT id (rows are never deleted, so that is the row count + 1).
InsertUser(rows, username, email, hash) ==
    Append(rows, [id |-> Len(rows) + 1, username |-> username,
                  email |-> email, password_hash |-> hash])

\* The User struct returned to callers: the row without its password_hash.
UserOf(row) == [id |-> row.id, username |-> row.username, email |-> row.email]

AttemptLabels == {<<"login", "failed">>, <<"login", "success">>,
                  <<"register", "failed">>, <<"register", "error">>,
                  <<"register", "success">>}
NoAttempts == [l \in AttemptLabels |-> 0]
Inc(counters, type, result) == [counters EXCEPT ![<<type, result>>] = @ + 1]
TotalAttempts(counters) ==
    counters[<<"login", "failed">>] + counters[<<"login", "success">>]
    + counters[<<"register", "failed">>] + counters[<<"register", "error">>]
    + counters[<<"register", "success">>]

\* http.Error(w, msg, code)
Error(code, msg) == [status |-> code, body |-> [error |-> msg]]

-----------------------------------------------------------------------------
(* Issuer Service (auth-service) *)

\* initDatabase, run by main before the server listens: create the table if it
\* is missing, and the default admin user if the table holds no rows.  A new
\* process starts with fresh metric counters.
initDatabase_recreates ==
    /\ proc = "down"
    /\ users' = InsertUser(<<>>, "admin", "admin@taskmanager.com",
                           GenerateFromPassword("admin123"))
    /\ proc' = "serving"
    /\ authAttempts' = NoAttempts
    /\ UNCHANGED <<now, resp, gateVars, hubVars, opsVars>>

initDatabase ==
    /\ proc = "down"
    /\ users' = IF Len(users) = 0
                THEN InsertUser(users, "admin", "admin@taskmanager.com",
                                GenerateFromPassword("admin123"))
                ELSE users
    /\ proc' = "serving"
    /\ authAttempts' = NoAttempts
    /\ UNCHANGED <<now, resp, gateVars, hubVars, opsVars>>

\* scripts/init-db.sh, init_db.go of the auth service: INSERT OR IGNORE of the
\* admin row, which the UNIQUE constraints turn into nothing when its username
\* or its email is stored. It opens the database file on its own, whether or
\* not the service runs.
init_db ==
    /\ users' = IF ViolatesUnique(users, "admin", "admin@taskmanager.com")
                THEN users
                ELSE InsertUser(users, "admin", "admin@taskmanager.com",
                                GenerateFromPassword("admin123"))
    /\ UNCHANGED <<proc, authAttempts, now, resp, gateVars, hubVars, opsVars>>

\* The process stops (crash, redeploy); the database file stays.
Stop ==
    /\ proc = "serving"
    /\ proc' = "down"
    /\ UNCHANGED <<users, authAttempts, now, resp, gateVars, hubVars, opsVars>>

\* The clock advances to a later sampled instant.
Tick(t) ==
    /\ t > now
    /\ now' = t
    /\ UNCHANGED <<users, proc, authAttempts, resp, gateVars, hubVars, opsVars>>

\* What loginHandler does with request req (BadJSON or {username, password})
\* when the environment injects `fault` and the clock reads t1, t2, t3 inside
\* generateToken: the response and the new counter vector.
LoginOutcome(req, fault, t1, t2, t3) ==
    IF req = BadJSON
    THEN [res |-> Error(StatusBadRequest, "Invalid request body"), attempts |-> authAttempts]
    ELSE IF fault = "db"
    THEN [res |-> Error(StatusInternalServerError, "Database error"), attempts |-> authAttempts]
    ELSE IF SelectByUsername(users, req.username) = {}
    THEN [res |-> Error(StatusUnauthorized, "Invalid credentials"), attempts |-> authAttempts]
    ELSE LET row == CHOOSE u \in SelectByUsername(users, req.username) : TRUE IN
         IF ~CompareHashAndPassword(row.password_hash, req.password)
         THEN [res |-> Error(StatusUnauthorized, "Invalid credentials"),
               attempts |-> Inc(authAttempts, "login", "failed")]
         ELSE IF fault = "sign"
         THEN [res |-> Error(StatusInternalServerError, "Failed to generate token"),
               attempts |-> Inc(authAttempts, "login", "success")]
         ELSE [res |-> [status |-> StatusOK,
                        body |-> [token |-> generateToken(row.id, row.username, t1, t2, t3),
                                  user |-> UserOf(row)]],
               attempts |-> Inc(authAttempts, "login", "success")]

LoginRequests == [username : Usernames, password : Passwords] \cup {BadJSON}
LoginFaults == {"none", "db", "sign"}

\* The response as the caller sees it, with the request it answers, the time
\* the handler finished, and the operation answered before it.
Respond(op, req, res, at) ==
    [op |-> op, req |-> req, status |-> res.status, body |-> res.body, at |-> at,
     prev |-> resp.op]

\* An injected fault that the handler never meets, or a delay between clock reads
\* that are never made, is the same run as the one without it.
Manifest(res, success, fault, d1, d2) ==
    /\ fault = "none" \/ res.status = StatusInternalServerError
    /\ (d1 = 0 /\ d2 = 0) \/ res.status = success

\* POST /api/auth/login
loginHandler(req, fault, d1, d2) ==
    LET t1 == now
        t2 == now + d1
        t3 == now + d1 + d2
        out == LoginOutcome(req, fault, t1, t2, t3)
        end == IF out.res.status = StatusOK THEN t3 ELSE now
    IN  /\ proc = "serving"
        /\ (d1 = 0 /\ d2 = 0) \/ t3 \in Instants
        /\ Manifest(out.res, StatusOK, fault, d1, d2)
        /\ TotalAttempts(out.attempts) <= MaxAttempts
        /\ authAttempts' = out.attempts
        /\ now' = end
        /\ resp' = Respond("login", req, out.res, end)
        /\ UNCHANGED <<users, proc, gateVars, hubVars, opsVars>>

RegisterRequests == [username : Usernames, email : Emails, password : {"p1", ""}]
                        \cup {BadJSON}
Alice == [username |-> "alice", email |-> "alice@example.com", password |-> "p1"]
RegisterFaults == {"none", "hash", "db", "reread", "sign"}

\* What registerHandler does with request req under `fault`: the response, the
\* new table and the new counter vector.
RegisterOutcome_rollsBack(req, fault, t1, t2, t3) ==
    LET same == [rows |-> users, attempts |-> authAttempts] IN
    IF req = BadJSON
    THEN [res |-> Error(StatusBadRequest, "Invalid request body")] @@ same
    ELSE IF req.username = "" \/ req.email = "" \/ req.password = ""
    THEN [res |-> Error(StatusBadRequest, "Username, email, and password are required")]
         @@ same
    ELSE IF fault = "hash"
    THEN [res |-> Error(StatusInternalServerError, "Failed to hash password")] @@ same
    ELSE IF fault = "db"
    THEN [res |-> Error(StatusInternalServerError, "Failed to create user"),
          rows |-> users, attempts |-> Inc(authAttempts, "register", "error")]
    ELSE IF ViolatesUnique(users, req.username, req.email)
    THEN [res |-> Error(StatusConflict, "Username or email already exists"),
          rows |-> users, attempts |-> Inc(authAttempts, "register", "failed")]
    ELSE LET rows == InsertUser(users, req.username, req.email,
                                GenerateFromPassword(req.password))
             row == rows[Len(rows)]
             done == [rows |-> rows,
                      attempts |-> Inc(authAttempts, "register", "success")]
         IN  IF fault = "reread"
             THEN [res |-> Error(StatusInternalServerError,
                                 "Failed to retrieve created user")] @@ same
             ELSE IF fault = "sign"
             THEN [res |-> Error(StatusInternalServerError,
                                 "Failed to generate token")] @@ same
             ELSE [res |-> [status |-> StatusCreated,
                            body |-> [token |-> generateToken(row.id, row.username,
                                                              t1, t2, t3),
                                      user |-> UserOf(row)]]] @@ done

RegisterOutcome(req, fault, t1, t2, t3) ==
    LET same == [rows |-> users, attempts |-> authAttempts] IN
    IF req = BadJSON
    THEN [res |-> Error(StatusBadRequest, "Invalid request body")] @@ same
    ELSE IF req.username = "" \/ req.email = "" \/ req.password = ""
    THEN [res |-> Error(StatusBadRequest, "Username, email, and password are required")]
         @@ same
    ELSE IF fault = "hash"
    THEN [res |-> Error(StatusInternalServerError, "Failed to hash password")] @@ same
    ELSE IF fault = "db"
    THEN [res |-> Error(StatusInternalServerError, "Failed to create user"),
          rows |-> users, attempts |-> Inc(authAttempts, "register", "error")]
    ELSE IF ViolatesUnique(users, req.username, req.email)
    THEN [res |-> Error(StatusConflict, "Username or email already exists"),
          rows |-> users, attempts |-> Inc(authAttempts, "register", "failed")]
    ELSE LET rows == InsertUser(users, req.username, req.email,
                                GenerateFromPassword(req.password))
             row == rows[Len(rows)]
             done == [rows |-> rows,
                      attempts |-> Inc(authAttempts, "register", "success")]
         IN  IF fault = "reread"
             THEN [res |-> Error(StatusInternalServerError,
                                 "Failed to retrieve created user")] @@ done
             ELSE IF fault = "sign"
             THEN [res |-> Error(StatusInternalServerError,
                                 "Failed to generate token")] @@ done
             ELSE [res |-> [status |-> StatusCreated,
                            body |-> [token |-> generateToken(row.id, row.username,
                                                              t1, t2, t3),
                                      user |-> UserOf(row)]]] @@ done

\* POST /api/auth/register
registerHandler(req, fault, d1, d2) ==
    LET t1 == now
        t2 == now + d1
        t3 == now + d1 + d2
        out == RegisterOutcome(req, fault, t1, t2, t3)
        end == IF out.res.status = StatusCreated THEN t3 ELSE now
    IN  /\ proc = "serving"
        /\ (d1 = 0 /\ d2 = 0) \/ t3 \in Instants
        /\ Manifest(out.res, StatusCreated, fault, d1, d2)
        /\ Len(out.rows) <= MaxUsers
        /\ TotalAttempts(out.attempts) <= MaxAttempts
        /\ users' = out.rows
        /\ authAttempts' = out.attempts
        /\ now' = end
        /\ resp' = Respond("register", req, out.res, end)
        /\ UNCHANGED <<proc, gateVars, hubVars, opsVars>>

\* What validateTokenHandler answers to the Authorization header h at time t.
ValidateResponse(h, t) ==
    IF h = EmptyHeader
    THEN Error(StatusUnauthorized, "Authorization header required")
    ELSE LET parsed == parseToken(StripBearer(h), t) IN
         IF ~parsed.ok
         THEN Error(StatusUnauthorized, "Invalid token")
         ELSE [status |-> StatusOK,
               body |-> [valid |-> TRUE, user_id |-> parsed.claims.user_id,
                         username |-> parsed.claims.username]]

\* Tokens a caller may present: the one of the last response and a corrupted
\* copy of it (last character of the signature changed), tokens minted outside
\* this process (with the Issuer's secret or with another key, for the default
\* or an unknown subject, at the first or the last sampled instant), and garbage.
Corrupt(tok) == [tok EXCEPT !.sig = [of |-> tok.claims, key |-> "corrupted"]]
RespToken == IF resp.status \in {StatusOK, StatusCreated} /\ resp.op \in {"login", "register"}
             THEN {resp.body.token} ELSE {}
Future == TokenTTL + MaxSkew
SampleTokens ==
    {Mint(1, "admin", TokenTTL, 0, 0, jwtSecret),
     Mint(1, "admin", TokenTTL, 0, 0, otherKey),
     Mint(MaxUsers + 1, "ghost", TokenTTL, 0, 0, jwtSecret),
     Mint(MaxUsers + 1, "ghost", Future + TokenTTL, Future, Future, jwtSecret)}
TokenInputs == RespToken \cup {Corrupt(tok) : tok \in RespToken}
                 \cup SampleTokens \cup {Garbage}
HeaderInputs == {EmptyHeader, Bearer(None)}
                  \cup {[pre |-> n, tok |-> tok] : n \in {0, 1}, tok \in TokenInputs}

\* GET /metrics (promhttp.Handler), served without any credential: the counters.
metricsHandler ==
    /\ proc = "serving"
    /\ resp' = Respond("metrics", None, [status |-> StatusOK, body |-> authAttempts], now)
    /\ UNCHANGED <<users, proc, authAttempts, now, gateVars, hubVars, opsVars>>

\* GET /api/auth/validate
validateTokenHandler(h) ==
    /\ proc = "serving"
    /\ resp' = Respond("validate", h, ValidateResponse(h, now), now)
    /\ UNCHANGED <<users, proc, authAttempts, now, gateVars, hubVars, opsVars>>

GetUserResponse_fromClaims(h, fault, t) ==
    IF h = EmptyHeader THEN Error(StatusUnauthorized, "Authorization header required")
    ELSE LET parsed == parseToken(StripBearer(h), t) IN
         IF ~parsed.ok THEN Error(StatusUnauthorized, "Invalid token")
         ELSE IF fault = "db" \/ SelectByID(users, parsed.claims.user_id) = {}
         THEN Error(StatusNotFound, "User not found")
         ELSE [status |-> StatusOK,
               body |-> [id |-> parsed.claims.user_id,
                         username |-> parsed.claims.username,
                         email |-> (CHOOSE u \in SelectByID(users, parsed.claims.user_id) :
                                       TRUE).email]]

\* What getUserHandler answers to the Authorization header h at time t.
GetUserResponse(h, fault, t) ==
    IF h = EmptyHeader
    THEN Error(StatusUnauthorized, "Authorization header required")
    ELSE LET parsed == parseToken(StripBearer(h), t) IN
         IF ~parsed.ok
         THEN Error(StatusUnauthorized, "Invalid token")
         ELSE IF fault = "db" \/ SelectByID(users, parsed.claims.user_id) = {}
         THEN Error(StatusNotFound, "User not found")
         ELSE [status |-> StatusOK,
               body |-> UserOf(CHOOSE u \in SelectByID(users, parsed.claims.user_id) : TRUE)]

\* GET /api/auth/user
getUserHandler(h, fault) ==
    /\ proc = "serving"
    /\ fault = "none" \/ GetUserResponse(h, fault, now).status = StatusNotFound
    /\ resp' = Respond("user", h, GetUserResponse(h, fault, now), now)
    /\ UNCHANGED <<users, proc, authAttempts, now, gateVars, hubVars, opsVars>>

-----------------------------------------------------------------------------
(* Resource service (task-service): table tasks and its handlers *)

Slots == {"r1"}

\* INSERT INTO tasks (title, description, priority, user_id): status defaults
\* to 'pending'.
InsertTask(rows, id, title, userID) ==
    rows \cup {[id |-> id, title |-> title, status |-> "pending", user_id |-> userID]}

SelectTask_anyOwner(rows, id, userID) == {t \in rows : t.id = id}

\* SELECT ... FROM tasks WHERE id = ? AND user_id = ?
SelectTask(rows, id, userID) == {t \in rows : t.id = id /\ t.user_id = userID}

\* getTasksHandler: the caller's rows.
getTasksHandler(userID, ep) ==
    [res |-> [status |-> StatusOK, body |-> {t \in tasks : t.user_id = userID}],
     rows |-> tasks, next |-> nextTaskID]

\* createTaskHandler
createTaskHandler(userID, ep) ==
    IF ep.title = ""
    THEN [res |-> Error(StatusBadRequest, "Title is required"),
          rows |-> tasks, next |-> nextTaskID]
    ELSE [res |-> [status |-> StatusCreated,
                   body |-> [id |-> nextTaskID, title |-> ep.title,
                             status |-> "pending", user_id |-> userID]],
          rows |-> InsertTask(tasks, nextTaskID, ep.title, userID),
          next |-> nextTaskID + 1]

\* getTaskHandler
getTaskHandler(userID, ep) ==
    IF SelectTask(tasks, ep.id, userID) = {}
    THEN [res |-> Error(StatusNotFound, "Task not found"),
          rows |-> tasks, next |-> nextTaskID]
    ELSE [res |-> [status |-> StatusOK,
                   body |-> CHOOSE t \in SelectTask(tasks, ep.id, userID) : TRUE],
          rows |-> tasks, next |-> nextTaskID]

\* updateTaskHandler: UPDATE tasks SET title = ?, ..., status = ? WHERE id = ?
\* AND user_id = ?, with the values of the request as they are.
updateTaskHandler(userID, ep) ==
    IF SelectTask(tasks, ep.id, userID) = {}
    THEN [res |-> Error(StatusNotFound, "Task not found"),
          rows |-> tasks, next |-> nextTaskID]
    ELSE LET old == CHOOSE t \in SelectTask(tasks, ep.id, userID) : TRUE
             new == [old EXCEPT !.title = ep.title, !.status = ep.status]
         IN  [res |-> [status |-> StatusOK, body |-> new],
              rows |-> (tasks \ {old}) \cup {new}, next |-> nextTaskID]

\* deleteTaskHandler
deleteTaskHandler(userID, ep) ==
    IF SelectTask(tasks, ep.id, userID) = {}
    THEN [res |-> Error(StatusNotFound, "Task not found"),
          rows |-> tasks, next |-> nextTaskID]
    ELSE [res |-> [status |-> StatusNoContent, body |-> None],
          rows |-> tasks \ SelectTask(tasks, ep.id, userID), next |-> nextTaskID]

\* setupRoutes: the five routes under /api/tasks, each behind authMiddleware.
Handler(userID, ep) ==
    CASE ep.route = "GET /api/tasks" -> getTasksHandler(userID, ep)
      [] ep.route = "POST /api/tasks" -> createTaskHandler(userID, ep)
      [] ep.route = "GET /api/tasks/{id}" -> getTaskHandler(userID, ep)
      [] ep.route = "PUT /api/tasks/{id}" -> updateTaskHandler(userID, ep)
      [] ep.route = "DELETE /api/tasks/{id}" -> deleteTaskHandler(userID, ep)

Titles == {"", "t1"}
TaskIDs == 1 .. MaxTasks
Endpoints ==
    {[route |-> "GET /api/tasks"]}
    \cup {[route |-> "POST /api/tasks", title |-> t] : t \in Titles}
    \cup {[route |-> "GET /api/tasks/{id}", id |-> i] : i \in TaskIDs}
    \cup {[route |-> "PUT /api/tasks/{id}", id |-> i, title |-> t, status |-> "done"] :
              i \in TaskIDs, t \in Titles}
    \cup {[route |-> "DELETE /api/tasks/{id}", id |-> i] : i \in TaskIDs}

-----------------------------------------------------------------------------
(* Authorization Middleware of the task service *)

\* A request slot: where the request is (pc), what the client sent (header,
\* the X-User-ID it supplied, the route), what the middleware sent to the Issuer
\* and when (call, started, calls), what came back (answer), and the outcome
\* (handled: the wrapped handler was invoked; res: the response written).
Idle == [pc |-> "idle", header |-> EmptyHeader, xuser |-> 0, ep |-> None,
         call |-> None, started |-> 0, calls |-> 0, answer |-> None,
         handled |-> FALSE, res |-> None]

Undecodable == [kind |-> "undecodable"]
NetworkError == [kind |-> "error", why |-> "network"]
TimedOut == [kind |-> "error", why |-> "timeout"]
Answer(res) == [kind |-> "response", status |-> res.status, body |-> res.body]

authMiddlewareEnter_noHeaderCheck(r, h, xuser, ep) ==
    /\ reqs[r].pc \in {"idle", "done"}
    /\ reqs' = [reqs EXCEPT ![r] =
          [Idle EXCEPT !.pc = "calling", !.header = h, !.xuser = xuser, !.ep = ep,
                       !.call = AddBearer(StripBearer(h)),
                       !.started = now, !.calls = 1]]
    /\ UNCHANGED <<issuerVars, tasks, nextTaskID, taskLog, hubVars, opsVars>>

authMiddlewareEnter_cached(r, h, xuser, ep) ==
    /\ reqs[r].pc \in {"idle", "done"}
    /\ reqs' = [reqs EXCEPT ![r] =
          IF h = EmptyHeader
          THEN [Idle EXCEPT !.pc = "done", !.header = h, !.xuser = xuser, !.ep = ep,
                            !.res = Error(StatusUnauthorized,
                                          "Authorization header required")]
          ELSE IF reqs[r].handled /\ reqs[r].header = h
          THEN [Idle EXCEPT !.pc = "answered", !.header = h, !.xuser = xuser,
                            !.ep = ep, !.started = now, !.answer = reqs[r].answer]
          ELSE [Idle EXCEPT !.pc = "calling", !.header = h, !.xuser = xuser, !.ep = ep,
                            !.call = AddBearer(StripBearer(h)),
                            !.started = now, !.calls = 1]]
    /\ UNCHANGED <<issuerVars, tasks, nextTaskID, taskLog, hubVars, opsVars>>

\* authMiddleware up to the call of validateToken: an empty header is answered
\* 401 at once; otherwise the prefix is removed and validateToken sends
\* GET /api/auth/validate with "Bearer " + tokenString.
authMiddlewareEnter(r, h, xuser, ep) ==
    /\ reqs[r].pc \in {"idle", "done"}
    /\ reqs' = [reqs EXCEPT ![r] =
          IF h = EmptyHeader
          THEN [Idle EXCEPT !.pc = "done", !.header = h, !.xuser = xuser, !.ep = ep,
                            !.res = Error(StatusUnauthorized,
                                          "Authorization header required")]
          ELSE [Idle EXCEPT !.pc = "calling", !.header = h, !.xuser = xuser, !.ep = ep,
                            !.call = AddBearer(StripBearer(h)),
                            !.started = now, !.calls = 1]]
    /\ UNCHANGED <<issuerVars, tasks, nextTaskID, taskLog, hubVars, opsVars>>

\* The Issuer's validateTokenHandler answers the call of request r in time.
IssuerAnswers(r) ==
    /\ reqs[r].pc = "calling"
    /\ proc = "serving"
    /\ now < reqs[r].started + ValidateTimeout
    /\ reqs' = [reqs EXCEPT ![r].pc = "answered",
                             ![r].answer = Answer(ValidateResponse(reqs[r].call, now))]
    /\ UNCHANGED <<issuerVars, tasks, nextTaskID, taskLog, hubVars, opsVars>>

\* Something else answers at the Issuer's address: a gateway error, a body that
\* is not JSON, a JSON body with valid = false.
OddAnswers == {[status |-> StatusInternalServerError, body |-> None],
               [status |-> StatusOK, body |-> Undecodable],
               [status |-> StatusOK, body |-> [valid |-> FALSE, user_id |-> 1,
                                               username |-> "admin"]]}
OtherAnswers(r, res) ==
    /\ reqs[r].pc = "calling"
    /\ now < reqs[r].started + ValidateTimeout
    /\ reqs' = [reqs EXCEPT ![r].pc = "answered", ![r].answer = Answer(res)]
    /\ UNCHANGED <<issuerVars, tasks, nextTaskID, taskLog, hubVars, opsVars>>

\* client.Do fails: the connection cannot be made or breaks.
CallFails(r) ==
    /\ reqs[r].pc = "calling"
    /\ now < reqs[r].started + ValidateTimeout
    /\ reqs' = [reqs EXCEPT ![r].pc = "answered", ![r].answer = NetworkError]
    /\ UNCHANGED <<issuerVars, tasks, nextTaskID, taskLog, hubVars, opsVars>>

\* client.Do gives up when the 5 seconds of the client have passed.
CallTimesOut(r) ==
    /\ reqs[r].pc = "calling"
    /\ now >= reqs[r].started + ValidateTimeout
    /\ reqs' = [reqs EXCEPT ![r].pc = "answered", ![r].answer = TimedOut]
    /\ UNCHANGED <<issuerVars, tasks, nextTaskID, taskLog, hubVars, opsVars>>

Rejected == [ok |-> FALSE, userID |-> 0]

validateToken_noValidCheck(answer) ==
    IF answer.kind = "error" THEN Rejected
    ELSE IF answer.status # StatusOK THEN Rejected
    ELSE IF answer.body = Undecodable THEN Rejected
    ELSE [ok |-> TRUE, userID |-> answer.body.user_id]

validateToken_errIgnored(answer) ==
    IF answer.kind = "error" THEN [ok |-> TRUE, userID |-> 0]
    ELSE IF answer.status # StatusOK THEN Rejected
    ELSE IF answer.body = Undecodable THEN Rejected
    ELSE IF ~answer.body.valid THEN Rejected
    ELSE [ok |-> TRUE, userID |-> answer.body.user_id]

\* validateToken from the return of client.Do: the user id, or an error.
validateToken(answer) ==
    IF answer.kind = "error" THEN Rejected
    ELSE IF answer.status # StatusOK THEN Rejected
    ELSE IF answer.body = Undecodable THEN Rejected
    ELSE IF ~answer.body.valid THEN Rejected
    ELSE [ok |-> TRUE, userID |-> answer.body.user_id]

authMiddlewareResume_keepsClientID(r) ==
    LET verdict == validateToken(reqs[r].answer)
        out == Handler(reqs[r].xuser, reqs[r].ep)
    IN  /\ reqs[r].pc = "answered"
        /\ IF ~verdict.ok
           THEN /\ reqs' = [reqs EXCEPT ![r].pc = "done",
                                        ![r].res = Error(StatusUnauthorized, "Invalid token")]
                /\ UNCHANGED <<tasks, nextTaskID>>
           ELSE /\ out.next <= MaxTasks + 1
                /\ reqs' = [reqs EXCEPT ![r].pc = "done",
                                        ![r].handled = TRUE, ![r].res = out.res]
                /\ tasks' = out.rows
                /\ nextTaskID' = out.next
        /\ UNCHANGED <<issuerVars, taskLog, hubVars, opsVars>>

\* authMiddleware from the return of validateToken: 401, or X-User-ID is set to
\* the user id and the wrapped handler runs.
authMiddlewareResume(r) ==
    LET verdict == validateToken(reqs[r].answer)
        out == Handler(verdict.userID, reqs[r].ep)
    IN  /\ reqs[r].pc = "answered"
        /\ IF ~verdict.ok
           THEN /\ reqs' = [reqs EXCEPT ![r].pc = "done",
                                        ![r].res = Error(StatusUnauthorized, "Invalid token")]
                /\ UNCHANGED <<tasks, nextTaskID>>
           ELSE /\ out.next <= MaxTasks + 1
                /\ reqs' = [reqs EXCEPT ![r].pc = "done", ![r].xuser = verdict.userID,
                                        ![r].handled = TRUE, ![r].res = out.res]
                /\ tasks' = out.rows
                /\ nextTaskID' = out.next
        /\ UNCHANGED <<issuerVars, taskLog, hubVars, opsVars>>

-----------------------------------------------------------------------------
(* Task service: what it logs *)

\* main logs four lines when the service starts; authMiddleware, validateToken
\* and the task handlers contain no call of package log.
StartupLog ==
    << [msg |-> "Task service starting on port", cause |-> "none"],
       [msg |-> "Database", cause |-> "none"],
       [msg |-> "Auth Service URL", cause |-> "none"],
       [msg |-> "CORS Origins", cause |-> "none"] >>

-----------------------------------------------------------------------------
(* Notification service: Subscription Registry (ns.webhooks) *)

MaxHooks == 2       \* longest list of webhook URLs kept for one event

SubWorkers == {"s1", "s2"}
HookEvents == {"notification.read", ""}
HookURLs == {"http://a/hook", "http://b/hook", ""}
SubscribeRequests == [event : HookEvents, url : HookURLs] \cup {BadJSON}

\* make(map[string][]string)
EmptyMap == [e \in {} |-> <<>>]

\* ns.webhooks[event]: the list, nil (no entries) when the key is absent
Lookup(m, event) == IF event \in DOMAIN m THEN m[event] ELSE <<>>

\* ns.webhooks[event] = list
Put(m, event, list) ==
    [e \in DOMAIN m \cup {event} |-> IF e = event THEN list ELSE m[e]]

\* how many entries of the list are this URL
Count(list, url) == Cardinality({i \in DOMAIN list : list[i] = url})

IdleSub == [pc |-> "idle", req |-> None, seen |-> <<>>, res |-> None]

registerWebhookHandler_bothEmpty(s, req) ==
    /\ hubProc = "serving"
    /\ subs[s].pc \in {"idle", "done"}
    /\ IF req = BadJSON
       THEN subs' = [subs EXCEPT ![s] =
                [IdleSub EXCEPT !.pc = "done", !.req = req,
                                !.res = Error(StatusBadRequest, "Invalid request body")]]
       ELSE IF req.event = "" /\ req.url = ""
       THEN subs' = [subs EXCEPT ![s] =
                [IdleSub EXCEPT !.pc = "done", !.req = req,
                                !.res = Error(StatusBadRequest,
                                              "Event and URL are required")]]
       ELSE /\ Len(Lookup(webhooks, req.event)) < MaxHooks
            /\ subs' = [subs EXCEPT ![s] =
                [IdleSub EXCEPT !.pc = "append", !.req = req,
                                !.seen = Lookup(webhooks, req.event)]]
    /\ UNCHANGED <<issuerVars, gateVars, opsVars, webhooks, hubProc, pubs>>

\* registerWebhookHandler up to the read of ns.webhooks[req.Event] in line 762:
\* decode, validate, read the list the URL will be appended to.
registerWebhookHandler(s, req) ==
    /\ hubProc = "serving"
    /\ subs[s].pc \in {"idle", "done"}
    /\ IF req = BadJSON
       THEN subs' = [subs EXCEPT ![s] =
                [IdleSub EXCEPT !.pc = "done", !.req = req,
                                !.res = Error(StatusBadRequest, "Invalid request body")]]
       ELSE IF req.event = "" \/ req.url = ""
       THEN subs' = [subs EXCEPT ![s] =
                [IdleSub EXCEPT !.pc = "done", !.req = req,
                                !.res = Error(StatusBadRequest,
                                              "Event and URL are required")]]
       ELSE /\ Len(Lookup(webhooks, req.event)) < MaxHooks
            /\ subs' = [subs EXCEPT ![s] =
                [IdleSub EXCEPT !.pc = "append", !.req = req,
                                !.seen = Lookup(webhooks, req.event)]]
    /\ UNCHANGED <<issuerVars, gateVars, opsVars, webhooks, hubProc, pubs>>

registerWebhookAppend_dedup(s) ==
    /\ hubProc = "serving"
    /\ subs[s].pc = "append"
    /\ webhooks' = Put(webhooks, subs[s].req.event,
                       IF Count(subs[s].seen, subs[s].req.url) > 0
                       THEN subs[s].seen
                       ELSE Append(subs[s].seen, subs[s].req.url))
    /\ subs' = [subs EXCEPT ![s].pc = "done", ![s].seen = <<>>,
                            ![s].res = [status |-> StatusCreated,
                                        body |-> [status |-> "webhook registered",
                                                  event |-> subs[s].req.event,
                                                  url |-> subs[s].req.url]]]
    /\ UNCHANGED <<issuerVars, gateVars, opsVars, hubProc, pubs>>

\* registerWebhookHandler from the write of line 762: the list read, with the
\* URL appended, is stored under the event; 201.
registerWebhookAppend(s) ==
    /\ hubProc = "serving"
    /\ subs[s].pc = "append"
    /\ webhooks' = Put(webhooks, subs[s].req.event,
                       Append(subs[s].seen, subs[s].req.url))
    /\ subs' = [subs EXCEPT ![s].pc = "done", ![s].seen = <<>>,
                            ![s].res = [status |-> StatusCreated,
                                        body |-> [status |-> "webhook registered",
                                                  event |-> subs[s].req.event,
                                                  url |-> subs[s].req.url]]]
    /\ UNCHANGED <<issuerVars, gateVars, opsVars, hubProc, pubs>>

\* The Go runtime finds the map written by one goroutine while another writes
\* or reads it ("fatal error: concurrent map writes"): the process dies.
MapFault ==
    /\ hubProc = "serving"
    /\ \/ \E s1, s2 \in SubWorkers :
             s1 # s2 /\ subs[s1].pc = "append" /\ subs[s2].pc = "append"
       \/ \E s1 \in SubWorkers, p \in DOMAIN pubs :
             subs[s1].pc = "append" /\ pubs[p].gpc = "lookup"
    /\ hubProc' = "crashed"
    /\ UNCHANGED <<issuerVars, gateVars, opsVars, webhooks, subs, pubs>>

-----------------------------------------------------------------------------
(* Notification service: handlers that publish, and the Event Dispatcher *)

PubSlots == {"p1"}

\* strconv.Atoi on the {id} segment of the path
Atoi(str) ==
    CASE str = "7" -> [ok |-> TRUE, n |-> 7]
      [] str = "12" -> [ok |-> TRUE, n |-> 12]
      [] OTHER -> [ok |-> FALSE, n |-> 0]

\* json.Marshal
Marshal(v) == [json |-> v]

\* What a handler that publishes decides before its go statement: an error
\* response, or the event and data to publish and the response to write.
Refuse(code, msg) == [ok |-> FALSE, res |-> Error(code, msg), event |-> "", data |-> None]
Publish(event, data, res) == [ok |-> TRUE, res |-> res, event |-> event, data |-> data]

triggerWebhookHandler(req) ==
    IF req.body = BadJSON THEN Refuse(StatusBadRequest, "Invalid request body")
    ELSE Publish(req.event, req.body,
                 [status |-> StatusOK,
                  body |-> [status |-> "webhooks triggered", event |-> req.event]])

createNotificationHandler(req) ==
    IF req.body = BadJSON THEN Refuse(StatusBadRequest, "Invalid request body")
    ELSE IF req.body.title = "" \/ req.body.message = ""
    THEN Refuse(StatusBadRequest, "Title and message are required")
    ELSE LET notification ==
                 [id |-> Cardinality(DOMAIN webhooks) + 1, user_id |-> req.body.user_id,
                  title |-> req.body.title, message |-> req.body.message,
                  type |-> req.body.type, read |-> FALSE, created_at |-> now]
         IN  Publish("notification.created", notification,
                     [status |-> StatusCreated, body |-> notification])

markAsReadHandler(req) ==
    IF ~Atoi(req.id).ok THEN Refuse(StatusBadRequest, "Invalid notification ID")
    ELSE Publish("notification.read",
                 [notification_id |-> Atoi(req.id).n, timestamp |-> now],
                 [status |-> StatusOK, body |-> [status |-> "marked as read"]])

markAllAsReadHandler(req) ==
    Publish("notifications.read_all", [timestamp |-> now],
            [status |-> StatusOK, body |-> [status |-> "all marked as read"]])

\* the routes of setupRoutes whose handlers publish
HubHandler(req) ==
    CASE req.route = "POST /api/webhooks/{event}" -> triggerWebhookHandler(req)
      [] req.route = "POST /api/notifications" -> createNotificationHandler(req)
      [] req.route = "PUT /api/notifications/{id}/read" -> markAsReadHandler(req)
      [] req.route = "PUT /api/notifications/read-all" -> markAllAsReadHandler(req)

TriggerEvents == {"notification.read", "custom.event"}
Payloads == {[json |-> "d1"], BadJSON}
NotificationBodies ==
    {[user_id |-> 1, title |-> "t", message |-> "m", type |-> "info"],
     [user_id |-> 1, title |-> "", message |-> "m", type |-> "info"], BadJSON}
PublishRequests ==
    {[route |-> "POST /api/webhooks/{event}", event |-> e, body |-> b] :
         e \in TriggerEvents, b \in Payloads}
    \cup {[route |-> "POST /api/notifications", body |-> b] : b \in NotificationBodies}
    \cup {[route |-> "PUT /api/notifications/{id}/read", id |-> i] : i \in {"7", "x"}}
    \cup {[route |-> "PUT /api/notifications/read-all"]}

\* A request that publishes: the handler (hpc, out, res) and the goroutine it
\* starts with "go ns.triggerWebhooks(event, data)" (gpc, event, data), with
\* one delivery unit per URL found (units).
IdlePub == [hpc |-> "idle", req |-> None, out |-> None, res |-> None,
            gpc |-> "none", event |-> "", data |-> None, units |-> <<>>]

FinishedStates == {"ok", "status", "error"}
Delivered(p) ==
    \/ pubs[p].gpc \in {"none", "done"}
    \/ /\ pubs[p].gpc = "delivering"
       /\ \A i \in DOMAIN pubs[p].units : pubs[p].units[i].state \in FinishedStates

\* The handler up to and including its go statement (or its error response).
ServePublish(p, req) ==
    LET plan == HubHandler(req)
    IN  /\ hubProc = "serving"
        /\ pubs[p].hpc \in {"idle", "done"}
        /\ Delivered(p)
        /\ pubs' = [pubs EXCEPT ![p] =
              IF ~plan.ok
              THEN [IdlePub EXCEPT !.hpc = "done", !.req = req, !.res = plan.res]
              ELSE [IdlePub EXCEPT !.hpc = "respond", !.req = req, !.out = plan.res,
                                   !.gpc = "lookup", !.event = plan.event,
                                   !.data = plan.data]]
        /\ UNCHANGED <<issuerVars, gateVars, opsVars, webhooks, hubProc, subs>>

WriteResponse_afterDelivery(p) ==
    /\ hubProc = "serving"
    /\ pubs[p].hpc = "respond"
    /\ pubs[p].gpc # "lookup" /\ Delivered(p)
    /\ pubs' = [pubs EXCEPT ![p].hpc = "done",
             ![p].res = IF \E i \in DOMAIN pubs[p].units : pubs[p].units[i].state # "ok"
                        THEN Error(StatusInternalServerError, "Delivery failed")
                        ELSE pubs[p].out]
    /\ UNCHANGED <<issuerVars, gateVars, opsVars, webhooks, hubProc, subs>>

\* The handler after its go statement: WriteHeader and Encode.
WriteResponse(p) ==
    /\ hubProc = "serving"
    /\ pubs[p].hpc = "respond"
    /\ pubs' = [pubs EXCEPT ![p].hpc = "done", ![p].res = pubs[p].out]
    /\ UNCHANGED <<issuerVars, gateVars, opsVars, webhooks, hubProc, subs>>

triggerWebhooks_createsEntry(p) ==
    /\ hubProc = "serving"
    /\ pubs[p].gpc = "lookup"
    /\ pubs' = [pubs EXCEPT ![p] =
          IF Lookup(webhooks, pubs[p].event) = <<>>
          THEN [pubs[p] EXCEPT !.gpc = "done"]
          ELSE [pubs[p] EXCEPT !.gpc = "delivering",
                   !.units = [i \in DOMAIN webhooks[pubs[p].event] |->
                                 [url |-> webhooks[pubs[p].event][i],
                                  state |-> "spawned", attempts |-> 0,
                                  body |-> None, age |-> 0]]]]
    /\ webhooks' = Put(webhooks, pubs[p].event, Lookup(webhooks, pubs[p].event))
    /\ UNCHANGED <<issuerVars, gateVars, opsVars, hubProc, subs>>

\* triggerWebhooks up to its loop: look the event up; return when the key is
\* absent; otherwise one goroutine per URL of the list.
triggerWebhooks(p) ==
    /\ hubProc = "serving"
    /\ pubs[p].gpc = "lookup"
    /\ pubs' = [pubs EXCEPT ![p] =
          IF pubs[p].event \notin DOMAIN webhooks
          THEN [pubs[p] EXCEPT !.gpc = "done"]
          ELSE [pubs[p] EXCEPT !.gpc = "delivering",
                   !.units = [i \in DOMAIN webhooks[pubs[p].event] |->
                                 [url |-> webhooks[pubs[p].event][i],
                                  state |-> "spawned", attempts |-> 0,
                                  body |-> None, age |-> 0]]]]
    /\ UNCHANGED <<issuerVars, gateVars, opsVars, webhooks, hubProc, subs>>

Post_inOrder(p, i) ==
    /\ hubProc = "serving"
    /\ pubs[p].gpc = "delivering"
    /\ i \in DOMAIN pubs[p].units
    /\ pubs[p].units[i].state = "spawned"
    /\ \A j \in 1 .. (i - 1) : pubs[p].units[j].state \in FinishedStates
    /\ pubs' = [pubs EXCEPT ![p].units[i] =
          [@ EXCEPT !.state = "posted", !.attempts = @ + 1,
                    !.body = Marshal([event |-> pubs[p].event, data |-> pubs[p].data])]]
    /\ UNCHANGED <<issuerVars, gateVars, opsVars, webhooks, hubProc, subs>>

\* A delivery goroutine calls client.Post with the marshalled payload.
Post(p, i) ==
    /\ hubProc = "serving"
    /\ pubs[p].gpc = "delivering"
    /\ i \in DOMAIN pubs[p].units
    /\ pubs[p].units[i].state = "spawned"
    /\ pubs' = [pubs EXCEPT ![p].units[i] =
          [@ EXCEPT !.state = "posted", !.attempts = @ + 1,
                    !.body = Marshal([event |-> pubs[p].event, data |-> pubs[p].data])]]
    /\ UNCHANGED <<issuerVars, gateVars, opsVars, webhooks, hubProc, subs>>

\* client.Post returns a 2xx status ("ok"), another status ("status"), or an
\* error ("error": the transport failed or the client's 10 s timeout passed);
\* the goroutine logs the outcome and ends.
PostOutcomes == FinishedStates
PostReturns_retry(p, i, outcome) ==
    /\ hubProc = "serving"
    /\ pubs[p].gpc = "delivering"
    /\ i \in DOMAIN pubs[p].units
    /\ pubs[p].units[i].state = "posted"
    /\ pubs' = [pubs EXCEPT ![p].units[i].state =
                    IF outcome = "error" /\ pubs[p].units[i].attempts < 2
                    THEN "spawned" ELSE outcome]
    /\ UNCHANGED <<issuerVars, gateVars, opsVars, webhooks, hubProc, subs>>

PostReturns(p, i, outcome) ==
    /\ hubProc = "serving"
    /\ pubs[p].gpc = "delivering"
    /\ i \in DOMAIN pubs[p].units
    /\ pubs[p].units[i].state = "posted"
    /\ pubs' = [pubs EXCEPT ![p].units[i].state = outcome]
    /\ UNCHANGED <<issuerVars, gateVars, opsVars, webhooks, hubProc, subs>>

\* Time passes for the POSTs in flight: d seconds more on the timer of each
\* client that has posted. A client's timer cannot pass its Timeout, it fires
\* there (PostTimesOut).
Elapse(d) ==
    /\ hubProc = "serving"
    /\ \E p \in PubSlots : \E i \in DOMAIN pubs[p].units :
          pubs[p].units[i].state = "posted"
    /\ \A p \in PubSlots : \A i \in DOMAIN pubs[p].units :
          pubs[p].units[i].state = "posted" => pubs[p].units[i].age + d <= DeliveryTimeout
    /\ pubs' = [p \in PubSlots |->
                  [pubs[p] EXCEPT !.units =
                      [i \in DOMAIN pubs[p].units |->
                          IF pubs[p].units[i].state = "posted"
                          THEN [pubs[p].units[i] EXCEPT !.age = @ + d]
                          ELSE pubs[p].units[i]]]]
    /\ UNCHANGED <<issuerVars, gateVars, opsVars, webhooks, hubProc, subs>>

PostTimesOut_withRequest(p, i) ==
    /\ hubProc = "serving"
    /\ pubs[p].gpc = "delivering"
    /\ pubs[p].hpc # "done"
    /\ i \in DOMAIN pubs[p].units
    /\ pubs[p].units[i].state = "posted"
    /\ pubs[p].units[i].age = DeliveryTimeout
    /\ pubs' = [pubs EXCEPT ![p].units[i].state = "error"]
    /\ UNCHANGED <<issuerVars, gateVars, opsVars, webhooks, hubProc, subs>>

\* The client's Timeout passes before client.Post has returned: Post returns
\* an error, the goroutine logs it and ends.
PostTimesOut(p, i) ==
    /\ hubProc = "serving"
    /\ pubs[p].gpc = "delivering"
    /\ i \in DOMAIN pubs[p].units
    /\ pubs[p].units[i].state = "posted"
    /\ pubs[p].units[i].age = DeliveryTimeout
    /\ pubs' = [pubs EXCEPT ![p].units[i].state = "error"]
    /\ UNCHANGED <<issuerVars, gateVars, opsVars, webhooks, hubProc, subs>>

-----------------------------------------------------------------------------
(* GET /health of the three services *)

Services == {"auth-service", "task-service", "notification-service"}
NoProbe == [service |-> "none", req |-> None, status |-> 0, body |-> None]

\* Whether the process of a service is there to answer.
Up(service) ==
    CASE service = "auth-service" -> proc = "serving"
      [] service = "notification-service" -> hubProc = "serving"
      [] OTHER -> TRUE

healthCheck_gated(service, h) ==
    /\ Up(service)
    /\ probe' = IF h = EmptyHeader
                THEN [service |-> service, req |-> h] @@
                     Error(StatusUnauthorized, "Authorization header required")
                ELSE [service |-> service, req |-> h, status |-> StatusOK,
                      body |-> [status |-> "healthy", service |-> service,
                                timestamp |-> now]]
    /\ UNCHANGED <<issuerVars, gateVars, hubVars, deploy>>

\* healthCheck of each service, registered on the router itself and not behind
\* authMiddleware: the request's headers are not read.
healthCheck(service, h) ==
    /\ Up(service)
    /\ probe' = [service |-> service, req |-> h, status |-> StatusOK,
                 body |-> [status |-> "healthy", service |-> service,
                           timestamp |-> now]]
    /\ UNCHANGED <<issuerVars, gateVars, hubVars, deploy>>

-----------------------------------------------------------------------------
(* scripts/deploy-blue-green.sh *)

\* The script as a sequential program: pc is the loop it is in, i the index of
\* the loop's next service. Per service and run: how railway up ended (up), the
\* curl probes made (probes), how the health check ended (health), whether the
\* run switched it (switched) or rolled it back (rolled). Across runs: what is
\* deployed on green (none, or the version of this run, or of an earlier run)
\* and where SERVICE_URL points (traffic).
HEALTH_CHECK_TIMEOUT == 60
ProbeInterval == 10
AllServices == {"auth-service", "task-service", "notification-service", "frontend"}
SERVICES_LIST(services) ==
    CASE services = "all" -> <<"auth-service", "task-service", "notification-service",
                               "frontend">>
      [] services = "frontend" -> <<"frontend">>
      [] services = "auth" -> <<"auth-service">>
      [] services = "task" -> <<"task-service">>
      [] services = "notification" -> <<"notification-service">>
      [] OTHER -> <<>>

NotStarted ==
    [pc |-> "idle", list |-> <<>>, timeout |-> HEALTH_CHECK_TIMEOUT, i |-> 1,
     retries |-> 0, code |-> 0,
     up |-> [x \in AllServices |-> "none"],
     probes |-> [x \in AllServices |-> 0],
     health |-> [x \in AllServices |-> "unknown"],
     switched |-> [x \in AllServices |-> FALSE],
     rolled |-> [x \in AllServices |-> FALSE],
     green |-> [x \in AllServices |-> "none"],
     traffic |-> [x \in AllServices |-> "blue"]]

\* The script is started (after an earlier run has ended, or for the first
\* time) with -s services -t timeout; what the earlier runs left on green is
\* now an earlier version.
Start(services, timeout) ==
    /\ deploy.pc \in {"idle", "exit"}
    /\ deploy' = [NotStarted EXCEPT
                     !.pc = "deploy", !.list = SERVICES_LIST(services),
                     !.timeout = timeout,
                     !.green = [x \in AllServices |->
                                   IF deploy.green[x] = "none" THEN "none" ELSE "earlier"],
                     !.traffic = deploy.traffic]
    /\ UNCHANGED <<issuerVars, gateVars, hubVars, probe>>

\* The loop that follows a loop over the services.
After(d, pc) == [d EXCEPT !.pc = pc, !.i = 1, !.retries = 0]
Exit(d, code) == [d EXCEPT !.pc = "exit", !.code = code]

\* The status deploy_service_to_green returns. It is called as the condition
\* of an if, where set -e does not apply to the commands of its body: cp, cd
\* and railway up may fail, the body runs on, and the function returns the
\* status of its last command, print_success.
Returns(outcome) == 0

\* One round of the loop over deploy_service_to_green; outcome is how railway
\* up ended.
deploy_service_to_green(outcome) ==
    /\ deploy.pc = "deploy"
    /\ deploy.i <= Len(deploy.list)
    /\ LET x == deploy.list[deploy.i]
           d == [deploy EXCEPT !.up[x] = outcome,
                               !.green[x] = IF outcome = "ok" THEN "this" ELSE @]
       IN  deploy' = IF Returns(outcome) # 0 THEN Exit(d, 1)
                     ELSE [d EXCEPT !.i = @ + 1]
    /\ UNCHANGED <<issuerVars, gateVars, hubVars, probe>>

\* The loop over deploy_service_to_green is over; sleep 30.
Wait ==
    /\ deploy.pc = "deploy"
    /\ deploy.i > Len(deploy.list)
    /\ deploy' = After(deploy, "health")
    /\ UNCHANGED <<issuerVars, gateVars, hubVars, probe>>

max_retries_roundedUp(timeout) == (timeout + ProbeInterval - 1) \div ProbeInterval

\* max_retries=$((HEALTH_CHECK_TIMEOUT / 10))
max_retries(timeout) == timeout \div ProbeInterval

\* One round of the while loop of check_green_health: curl --max-time 10 of
\* green's /health. Something must be deployed on green for it to answer.
curl(outcome) ==
    /\ deploy.pc = "health"
    /\ deploy.i <= Len(deploy.list)
    /\ deploy.retries < max_retries(deploy.timeout)
    /\ LET x == deploy.list[deploy.i]
           d == [deploy EXCEPT !.probes[x] = @ + 1]
       IN  /\ outcome = "healthy" => deploy.green[x] # "none"
           /\ deploy' = IF outcome = "healthy"
                         THEN [d EXCEPT !.health[x] = "passed", !.i = @ + 1, !.retries = 0]
                         ELSE [d EXCEPT !.retries = @ + 1]
    /\ UNCHANGED <<issuerVars, gateVars, hubVars, probe>>

\* The while loop of check_green_health ends without a healthy answer: return
\* 1, DEPLOYMENT_SUCCESS=false, break.
check_green_health_fails ==
    /\ deploy.pc = "health"
    /\ deploy.i <= Len(deploy.list)
    /\ deploy.retries >= max_retries(deploy.timeout)
    /\ deploy' = After([deploy EXCEPT !.health[deploy.list[deploy.i]] = "failed"],
                       "rollback")
    /\ UNCHANGED <<issuerVars, gateVars, hubVars, probe>>

\* Every health check has passed.
AllHealthy ==
    /\ deploy.pc = "health"
    /\ deploy.i > Len(deploy.list)
    /\ deploy' = After(deploy, "switch")
    /\ UNCHANGED <<issuerVars, gateVars, hubVars, probe>>

\* The loops over rollback_to_blue and switch_traffic_to_green are not
\* conditions: under set -e a railway variables set that fails ends the script
\* there with the command's status.
rollback_to_blue(outcome) ==
    /\ deploy.pc = "rollback"
    /\ deploy.i <= Len(deploy.list)
    /\ LET x == deploy.list[deploy.i] IN
       deploy' = IF outcome = "failed" THEN Exit(deploy, 1)
                 ELSE [deploy EXCEPT !.traffic[x] = "blue", !.rolled[x] = TRUE,
                                     !.i = @ + 1]
    /\ UNCHANGED <<issuerVars, gateVars, hubVars, probe>>

\* Every service is rolled back: exit 1.
RolledBack ==
    /\ deploy.pc = "rollback"
    /\ deploy.i > Len(deploy.list)
    /\ deploy' = Exit(deploy, 1)
    /\ UNCHANGED <<issuerVars, gateVars, hubVars, probe>>

switch_traffic_to_green(outcome) ==
    /\ deploy.pc = "switch"
    /\ deploy.i <= Len(deploy.list)
    /\ LET x == deploy.list[deploy.i] IN
       deploy' = IF outcome = "failed" THEN Exit(deploy, 1)
                 ELSE [deploy EXCEPT !.traffic[x] = "green", !.switched[x] = TRUE,
                                     !.i = @ + 1]
    /\ UNCHANGED <<issuerVars, gateVars, hubVars, probe>>

\* Final verification: sleep 10, health-check.sh; exit 1 when it fails.
Verify(outcome) ==
    /\ deploy.pc = "switch"
    /\ deploy.i > Len(deploy.list)
    /\ deploy' = Exit(deploy, IF outcome = "failed" THEN 1 ELSE 0)
    /\ UNCHANGED <<issuerVars, gateVars, hubVars, probe>>

CommandOutcomes == {"ok", "failed"}

-----------------------------------------------------------------------------
(* Specification of the Issuer alone *)

NoResponse == [op |-> "none", req |-> None, status |-> 0, body |-> None, at |-> 0,
               prev |-> "none"]

Init ==
    /\ users = <<>>
    /\ proc = "down"
    /\ authAttempts = NoAttempts
    /\ now = 0
    /\ resp = NoResponse
    /\ reqs = [r \in Slots |-> Idle]
    /\ tasks = {}
    /\ nextTaskID = 1
    /\ taskLog = StartupLog
    /\ webhooks = EmptyMap
    /\ hubProc = "serving"
    /\ subs = [s \in SubWorkers |-> IdleSub]
    /\ pubs = [p \in PubSlots |-> IdlePub]
    /\ probe = NoProbe
    /\ deploy = NotStarted

Delays == {0, 1}

\* The Issuer over time: registration, issuance, verification, the clock.
Next ==
    \/ initDatabase
    \/ Stop
    \/ \E t \in Instants : Tick(t)
    \/ \E req \in LoginRequests, d1 \in Delays, d2 \in Delays :
          loginHandler(req, "none", d1, d2)
    \/ \E d1 \in Delays, d2 \in Delays : registerHandler(Alice, "none", d1, d2)
    \/ \E h \in HeaderInputs : validateTokenHandler(h)

Spec == Init /\ [][Next]_vars

\* The Issuer and its store at one instant: registration and login.
NextStore ==
    \/ initDatabase
    \/ Stop
    \/ \E req \in LoginRequests, fault \in LoginFaults : loginHandler(req, fault, 0, 0)
    \/ \E req \in RegisterRequests, fault \in RegisterFaults :
          registerHandler(req, fault, 0, 0)
    \/ metricsHandler

SpecStore == Init /\ [][NextStore]_vars

\* The task service behind its middleware, with the Issuer it calls.
Admin == [username |-> "admin", password |-> "admin123"]
GateInstants == {ValidateTimeout, TokenTTL}
GateHeaders == {EmptyHeader, Bearer(Garbage)} \cup {Bearer(tok) : tok \in RespToken}
\* The requests sent to the gated routes: every route, every task id, a create
\* with and without a title, an update that sets the status.
GateEndpoints ==
    {ep \in Endpoints : ep.route = "PUT /api/tasks/{id}" => ep.title # ""}

NextGate ==
    \/ initDatabase
    \/ Stop
    \/ \E t \in GateInstants : Tick(t)
    \/ loginHandler(Admin, "none", 0, 0)
    \/ \E r \in Slots, h \in GateHeaders, ep \in GateEndpoints :
          authMiddlewareEnter(r, h, MaxUsers + 1, ep)
    \/ \E r \in Slots : IssuerAnswers(r)
    \/ \E r \in Slots, res \in OddAnswers : OtherAnswers(r, res)
    \/ \E r \in Slots : CallFails(r)
    \/ \E r \in Slots : CallTimesOut(r)
    \/ \E r \in Slots : authMiddlewareResume(r)

SpecGate == Init /\ [][NextGate]_vars

\* Specification of the Subscription Registry: concurrent subscribe requests,
\* and a mark-as-read request whose goroutine looks the registry up.
MarkRead == [route |-> "PUT /api/notifications/{id}/read", id |-> "7"]
Subscriptions == {req \in SubscribeRequests \ {BadJSON} : req.event # "" /\ req.url # ""}
NextRegistry ==
    \/ \E s \in SubWorkers, req \in Subscriptions : registerWebhookHandler(s, req)
    \/ \E s \in SubWorkers : registerWebhookAppend(s)
    \/ MapFault
    \/ \E p \in PubSlots : ServePublish(p, MarkRead)
    \/ \E p \in PubSlots : WriteResponse(p)
    \/ \E p \in PubSlots : triggerWebhooks(p)
    \/ \E p \in PubSlots, i \in 1 .. MaxHooks : Post(p, i)
    \/ \E p \in PubSlots, i \in 1 .. MaxHooks : PostReturns(p, i, "ok")

SpecRegistry == Init /\ [][NextRegistry]_vars

\* Specification of the Event Dispatcher: one subscribe request at a time, well
\* formed or not, and every publishing request with its delivery goroutines.
NextPublish ==
    \/ \E req \in SubscribeRequests : registerWebhookHandler("s1", req)
    \/ registerWebhookAppend("s1")
    \/ MapFault
    \/ \E p \in PubSlots, req \in PublishRequests : ServePublish(p, req)
    \/ \E p \in PubSlots : WriteResponse(p)
    \/ \E p \in PubSlots : triggerWebhooks(p)
    \/ \E p \in PubSlots, i \in 1 .. MaxHooks : Post(p, i)
    \/ \E p \in PubSlots, i \in 1 .. MaxHooks, o \in PostOutcomes : PostReturns(p, i, o)

SpecPublish == Init /\ [][NextPublish]_vars

\* The deliveries in time. The Go scheduler runs every goroutine that can run,
\* time passes, and a timer that has reached its Timeout fires; whether and
\* when a subscriber answers is up to the subscriber.
Subscribe == [event |-> "notification.read", url |-> "http://a/hook"]
Steps == {DeliveryTimeout \div 2, DeliveryTimeout}
NextDelivery ==
    \/ registerWebhookHandler("s1", Subscribe)
    \/ registerWebhookAppend("s1")
    \/ MapFault
    \/ \E p \in PubSlots : ServePublish(p, MarkRead)
    \/ \E p \in PubSlots : WriteResponse(p)
    \/ \E p \in PubSlots : triggerWebhooks(p)
    \/ \E p \in PubSlots, i \in 1 .. MaxHooks : Post(p, i)
    \/ \E p \in PubSlots, i \in 1 .. MaxHooks, o \in PostOutcomes : PostReturns(p, i, o)
    \/ \E d \in Steps : Elapse(d)
    \/ \E p \in PubSlots, i \in 1 .. MaxHooks : PostTimesOut(p, i)

SpecDelivery ==
    /\ Init /\ [][NextDelivery]_vars
    /\ \A p \in PubSlots, i \in 1 .. MaxHooks : WF_vars(Post(p, i))
    /\ \A p \in PubSlots, i \in 1 .. MaxHooks : WF_vars(PostTimesOut(p, i))
    /\ WF_vars(\E d \in Steps : Elapse(d))

\* Resolving identity: tokens of subjects that are stored, of a subject that is
\* not (issued before the database file was replaced), and one whose handle is
\* not the stored one.
Bob == [username |-> "bob", email |-> "bob@example.com", password |-> "p1"]
Renamed == Mint(1, "root", TokenTTL, 0, 0, jwtSecret)
IdentityHeaders ==
    {EmptyHeader, Bearer(None), Bearer(Garbage)}
      \cup {[pre |-> n, tok |-> tok] : n \in {0, 1}, tok \in SampleTokens \cup {Renamed}}
      \cup {Bearer(tok) : tok \in RespToken}
NextIdentity ==
    \/ initDatabase
    \/ Stop
    \/ \E t \in Instants : Tick(t)
    \/ \E req \in {Alice, Bob} : registerHandler(req, "none", 0, 0)
    \/ \E h \in IdentityHeaders, fault \in {"none", "db"} : getUserHandler(h, fault)

SpecIdentity == Init /\ [][NextIdentity]_vars

\* The store over restarts: both initializers, registrations that fail at any
\* step, logins.
SeedRequests ==
    {Alice, Bob,
     [username |-> "alice", email |-> "bob@example.com", password |-> "p1"],
     [username |-> "bob", email |-> "alice@example.com", password |-> "p1"],
     [username |-> "alice", email |-> "alice@example.com", password |-> ""]}
SeedLogins == [username : {"admin", "alice", "bob"}, password : {"admin123", "p1"}]
NextSeed ==
    \/ initDatabase
    \/ init_db
    \/ Stop
    \/ \E req \in SeedRequests, fault \in RegisterFaults : registerHandler(req, fault, 0, 0)
    \/ \E req \in SeedLogins : loginHandler(req, "none", 0, 0)

SpecSeed == Init /\ [][NextSeed]_vars

\* The three services with their liveness probes: a login, a gated request
\* that creates a task, a subscription, and GET /health of each service with
\* and without a credential.
HealthHeaders == {EmptyHeader, Bearer(Garbage)} \cup {Bearer(tok) : tok \in RespToken}
CreateTask == [route |-> "POST /api/tasks", title |-> "t1"]
NextHealth ==
    \/ initDatabase
    \/ Stop
    \/ loginHandler(Admin, "none", 0, 0)
    \/ \E r \in Slots, h \in HealthHeaders : authMiddlewareEnter(r, h, MaxUsers + 1, CreateTask)
    \/ \E r \in Slots : IssuerAnswers(r)
    \/ \E r \in Slots : authMiddlewareResume(r)
    \/ registerWebhookHandler("s1", Subscribe)
    \/ registerWebhookAppend("s1")
    \/ \E service \in Services, h \in HealthHeaders : healthCheck(service, h)

SpecHealth == Init /\ [][NextHealth]_vars

\* The task service used by two subjects in turn: the default subject and a
\* registered one log in (the latter also across a restart of the Issuer), and
\* each sends every request of the five routes with the token it got.
TaskHeaders == {Bearer(tok) : tok \in RespToken}
AliceLogin == [username |-> "alice", password |-> "p1"]
NextTasks ==
    \/ initDatabase
    \/ Stop
    \/ registerHandler(Alice, "none", 0, 0)
    \/ \E req \in {Admin, AliceLogin} : loginHandler(req, "none", 0, 0)
    \/ \E r \in Slots, h \in TaskHeaders, ep \in Endpoints :
          authMiddlewareEnter(r, h, MaxUsers + 1, ep)
    \/ \E r \in Slots : IssuerAnswers(r)
    \/ \E r \in Slots : authMiddlewareResume(r)

SpecTasks == Init /\ [][NextTasks]_vars

\* The same Authorization header presented to the task service and to the
\* Issuer's verify endpoint: no token, garbage, a token of the Issuer or one
\* signed with another key, each bare, after "Bearer " and after "Bearer
\* Bearer "; the first of these without a token is the empty header, the second
\* the prefix alone.
AgreeHeaders ==
    {[pre |-> n, tok |-> tok] :
        n \in 0 .. 2,
        tok \in {None, Garbage, Mint(1, "admin", TokenTTL, 0, 0, otherKey)} \cup RespToken}
ListTasks == [route |-> "GET /api/tasks"]
NextAgree ==
    \/ initDatabase
    \/ Stop
    \/ \E t \in GateInstants : Tick(t)
    \/ loginHandler(Admin, "none", 0, 0)
    \/ \E h \in AgreeHeaders : validateTokenHandler(h)
    \/ \E r \in Slots, h \in AgreeHeaders : authMiddlewareEnter(r, h, MaxUsers + 1, ListTasks)
    \/ \E r \in Slots : IssuerAnswers(r)
    \/ \E r \in Slots : authMiddlewareResume(r)

SpecAgree == Init /\ [][NextAgree]_vars

\* The deployment script, run again and again: one service with the default
\* timeout, all services with a timeout that is not a multiple of the probe
\* interval and with one below it; every command of the script that can fail
\* may fail.
Runs == {<<"task", HEALTH_CHECK_TIMEOUT>>, <<"all", 25>>, <<"all", 5>>}
NextDeploy ==
    \/ \E run \in Runs : Start(run[1], run[2])
    \/ \E outcome \in CommandOutcomes : deploy_service_to_green(outcome)
    \/ Wait
    \/ \E outcome \in {"healthy", "failed"} : curl(outcome)
    \/ check_green_health_fails
    \/ AllHealthy
    \/ \E outcome \in CommandOutcomes : rollback_to_blue(outcome)
    \/ RolledBack
    \/ \E outcome \in CommandOutcomes : switch_traffic_to_green(outcome)
    \/ \E outcome \in CommandOutcomes : Verify(outcome)

SpecDeploy == Init /\ [][NextDeploy]_vars

-----------------------------------------------------------------------------
(* Claims about the Credential Codec and the Issuer (specification Spec) *)

HasToken(r) == r.op \in {"login", "register"} /\ r.status \in {StatusOK, StatusCreated}

\* C1: a login with a stored (handle, passphrase) pair, followed at once by
\* GET /api/auth/validate presenting "Bearer " + the returned token, is answered
\* 200 with valid = true and the id and handle of the subject that logged in,
\* which is the stored subject with that handle and passphrase.
C1_LoginThenValidate ==
    [][(/\ resp.op = "login" /\ resp.status = StatusOK /\ resp.at = now
        /\ validateTokenHandler(Bearer(resp.body.token)))
       => (/\ resp'.status = StatusOK
           /\ resp'.body.valid = TRUE
           /\ resp'.body.user_id = resp.body.user.id
           /\ resp'.body.username = resp.body.user.username
           /\ resp.body.user.username = resp.req.username
           /\ \E row \in Rows(users) :
                 /\ UserOf(row) = resp.body.user
                 /\ CompareHashAndPassword(row.password_hash, resp.req.password))]_vars

\* A registered subject (not the default one) logged in and the token it got
\* was verified in the same second.
C1_Witness ==
    /\ resp.op = "validate" /\ resp.prev = "login" /\ resp.status = StatusOK
    /\ resp.req.tok.claims.user_id = 2
    /\ resp.req.tok.claims.nbf = resp.at
    /\ resp.body.user_id = 2

\* C2: whenever the verify endpoint answers valid, the presented token is well
\* formed, its signature is the one the Issuer's secret gives for its claims,
\* and the time of the answer lies in [not-before, expires-at).
C2_ValidOnlyIfSignedAndInWindow ==
    (resp.op = "validate" /\ resp.status = StatusOK)
    => /\ resp.body.valid = TRUE
       /\ resp.req.tok.kind = "jwt"
       /\ resp.req.tok.sig = SignedString(resp.req.tok.claims, jwtSecret)
       /\ resp.req.tok.claims.nbf <= resp.at
       /\ resp.at < resp.req.tok.claims.exp
       /\ resp.body.user_id = resp.req.tok.claims.user_id

\* A token signed with the Issuer's secret was refused because it is not yet valid.
C2_Witness ==
    /\ resp.op = "validate" /\ resp.status = StatusUnauthorized
    /\ resp.req.tok.kind = "jwt"
    /\ resp.req.tok.sig = SignedString(resp.req.tok.claims, jwtSecret)
    /\ resp.at < resp.req.tok.claims.nbf

\* C3: the clock never goes back, and a token whose expires-at has been reached
\* is refused by every verification from then on, whatever its signature.
Expired(h, t) == h.tok.kind = "jwt" /\ t >= h.tok.claims.exp
C3_ExpiredStaysInvalid ==
    [][/\ now' >= now
       /\ \A h \in HeaderInputs :
            Expired(h, now) =>
              /\ Expired(h, now')
              /\ ValidateResponse(h, now').status = StatusUnauthorized
              /\ validateTokenHandler(h) => resp'.status = StatusUnauthorized]_vars

\* A token issued by a login was presented when its expires-at had been
\* reached, and was refused.
C3_Witness ==
    /\ resp.op = "validate" /\ resp.prev = "login" /\ resp.status = StatusUnauthorized
    /\ resp.req.tok.kind = "jwt"
    /\ resp.req.tok.sig = SignedString(resp.req.tok.claims, jwtSecret)
    /\ resp.req.tok.claims.iat > 0
    /\ resp.at >= resp.req.tok.claims.exp

\* C4: every issued credential has issued-at = not-before and expires-at =
\* not-before + 24 h.
C4_OneIssueTime ==
    HasToken(resp) =>
        /\ resp.body.token.claims.iat = resp.body.token.claims.nbf
        /\ resp.body.token.claims.exp = resp.body.token.claims.nbf + TokenTTL

-----------------------------------------------------------------------------
(* Claims about the Credential Store (specification SpecStore) *)

\* The step is registerHandler answering a decoded request under `fault`.
RegisterStep(fault) ==
    /\ resp'.op = "register"
    /\ resp'.req # BadJSON
    /\ registerHandler(resp'.req, fault, 0, 0)

WellFormed(req) == req.username # "" /\ req.email # "" /\ req.password # ""
NoToken(r) == "token" \notin DOMAIN r.body

\* C5: a second registration of a stored handle (with a contact and a
\* passphrase given) is answered 409 without a token and leaves the table as
\* it was, with exactly one row of that handle.
C5_SecondRegistrationConflicts ==
    [][(/\ RegisterStep("none")
        /\ resp'.req.email # "" /\ resp'.req.password # ""
        /\ SelectByUsername(users, resp'.req.username) # {})
       => (/\ resp'.status = StatusConflict
           /\ NoToken(resp')
           /\ users' = users
           /\ Cardinality(SelectByUsername(users', resp'.req.username)) = 1)]_vars

\* A registration was refused with 409 for its handle alone: the contact it
\* gave is not stored.
C5_Witness ==
    /\ resp.op = "register" /\ resp.status = StatusConflict
    /\ SelectByUsername(users, resp.req.username) # {}
    /\ \A u \in Rows(users) : u.email # resp.req.email

Unique(rows) ==
    \A i, j \in 1 .. Len(rows) :
        (rows[i].username = rows[j].username \/ rows[i].email = rows[j].email) => i = j

Observable(out) == [status |-> out.res.status, body |-> out.res.body,
                    metrics |-> out.attempts]

\* C7: from any state, a login with a wrong passphrase for a stored handle and
\* a login with a handle that is not stored are observably the same.
C7_SameOutcome ==
    \A wrong, unknown \in LoginRequests \ {BadJSON} :
        (/\ proc = "serving"
         /\ \E u \in SelectByUsername(users, wrong.username) :
               ~CompareHashAndPassword(u.password_hash, wrong.password)
         /\ SelectByUsername(users, unknown.username) = {})
        => Observable(LoginOutcome(wrong, "none", now, now, now))
             = Observable(LoginOutcome(unknown, "none", now, now, now))

-----------------------------------------------------------------------------
(* Claims about the Authorization Middleware (specification SpecGate) *)

\* C8: a request to a route under /api/tasks without an Authorization header
\* is answered 401 in the step that receives it: no call goes to the Issuer,
\* the wrapped handler is not invoked and table tasks is left as it is.
C8_NoHeaderNoEffect ==
    [][\A r \in Slots :
         authMiddlewareEnter(r, EmptyHeader, reqs'[r].xuser, reqs'[r].ep)
         => (/\ reqs'[r].pc = "done"
             /\ reqs'[r].res.status = StatusUnauthorized
             /\ reqs'[r].calls = 0
             /\ reqs'[r].call = None
             /\ ~reqs'[r].handled
             /\ tasks' = tasks
             /\ nextTaskID' = nextTaskID)]_vars

\* A DELETE of a stored task came without a header: it was answered 401 and the
\* task is still stored.
C8_Witness ==
    \E r \in Slots :
        /\ reqs[r].pc = "done" /\ reqs[r].header = EmptyHeader
        /\ reqs[r].res.status = StatusUnauthorized
        /\ reqs[r].ep.route = "DELETE /api/tasks/{id}"
        /\ \E t \in tasks : t.id = reqs[r].ep.id

\* The Issuer's answer to the verification call says the token is valid.
Accepting(answer) ==
    /\ answer.kind = "response"
    /\ answer.status = StatusOK
    /\ answer.body # Undecodable
    /\ answer.body.valid = TRUE

\* C9: the wrapped handler is invoked (and table tasks changes) only in a step
\* of a request whose one verification call has already been answered 200 with
\* valid = true, for the token that request presented; a request whose call
\* ended otherwise is answered 401 and its handler is never invoked.
C9_HandlerOnlyAfterValid ==
    [][\A r \in Slots :
         /\ (reqs'[r].handled /\ ~reqs[r].handled)
            => (/\ reqs[r].pc = "answered"
                /\ reqs[r].calls = 1
                /\ Accepting(reqs[r].answer)
                /\ reqs[r].call = AddBearer(StripBearer(reqs[r].header))
                /\ reqs[r].answer.body.user_id = reqs[r].call.tok.claims.user_id)
         /\ (tasks' # tasks \/ nextTaskID' # nextTaskID)
            => (reqs'[r].handled /\ ~reqs[r].handled)
         /\ (reqs[r].pc = "answered" /\ reqs'[r].pc = "done" /\ ~Accepting(reqs[r].answer))
            => (~reqs'[r].handled /\ reqs'[r].res.status = StatusUnauthorized)]_vars

\* A create request ran its handler after the Issuer had accepted its token.
C9_Witness ==
    \E r \in Slots :
        /\ reqs[r].pc = "done" /\ reqs[r].handled
        /\ Accepting(reqs[r].answer)
        /\ reqs[r].res.status = StatusCreated
        /\ tasks # {}

\* C10: a request whose verification call failed at the network level, timed
\* out, got a status other than 200, an undecodable body or valid = false has
\* been answered 401 "Invalid token" once it is done, and its handler was not
\* invoked; a call that timed out was given up no sooner than 5 seconds after
\* it was sent.
C10_FailsClosed ==
    \A r \in Slots :
        (reqs[r].pc = "done" /\ reqs[r].calls = 1 /\ ~Accepting(reqs[r].answer))
        => /\ reqs[r].res = Error(StatusUnauthorized, "Invalid token")
           /\ ~reqs[r].handled
           /\ reqs[r].answer = TimedOut => now >= reqs[r].started + ValidateTimeout

\* A request that presented a token the Issuer had just issued was answered
\* 401 because its verification call timed out.
C10_Witness ==
    \E r \in Slots :
        /\ reqs[r].pc = "done" /\ reqs[r].answer = TimedOut
        /\ reqs[r].header.tok.kind = "jwt"
        /\ reqs[r].res.status = StatusUnauthorized
        /\ ~reqs[r].handled

\* What made the middleware reject a request after its verification call.
Cause(answer) == IF answer.kind = "error" THEN "issuer unreachable" ELSE "token invalid"

\* C11: a request rejected after its verification call is answered the same 401
\* "Invalid token" whether the Issuer was unreachable or refused the token, and
\* the task service's log holds a record that names which of the two it was.
C11_RejectionLogged ==
    \A r \in Slots :
        (reqs[r].pc = "done" /\ reqs[r].calls = 1 /\ ~Accepting(reqs[r].answer))
        => /\ reqs[r].res = Error(StatusUnauthorized, "Invalid token")
           /\ \E i \in DOMAIN taskLog : taskLog[i].cause = Cause(reqs[r].answer)

\* C12: every request that presents a credential makes exactly one verification
\* call, for the credential it presented, and its handler runs only on the
\* answer to that call: a request whose token had expired when it arrived, or
\* whose call got no answer, is rejected whatever earlier requests were answered.
C12_OneCallNoCache ==
    \A r \in Slots :
        /\ (reqs[r].pc # "idle" /\ reqs[r].header # EmptyHeader)
           => (reqs[r].calls = 1 /\ reqs[r].call = AddBearer(StripBearer(reqs[r].header)))
        /\ reqs[r].handled
           => /\ reqs[r].calls = 1
              /\ Accepting(reqs[r].answer)
              /\ reqs[r].header.tok.kind = "jwt"
              /\ reqs[r].started < reqs[r].header.tok.claims.exp
        /\ (/\ reqs[r].pc = "done" /\ reqs[r].header # EmptyHeader
            /\ \/ reqs[r].answer.kind = "error"
               \/ /\ reqs[r].header.tok.kind = "jwt"
                  /\ reqs[r].started >= reqs[r].header.tok.claims.exp)
           => (~reqs[r].handled /\ reqs[r].res.status = StatusUnauthorized)

\* The only token the Issuer ever issued was accepted by the middleware (a task
\* was created with it) and, presented again after it expired, was rejected.
C12_Witness ==
    /\ resp.op = "login" /\ resp.prev = "none" /\ HasToken(resp)
    /\ tasks # {}
    /\ \E r \in Slots :
          /\ reqs[r].pc = "done" /\ reqs[r].calls = 1
          /\ reqs[r].header = Bearer(resp.body.token)
          /\ reqs[r].started >= resp.body.token.claims.exp
          /\ reqs[r].res.status = StatusUnauthorized

\* C13: when the handler of a request has run, the X-User-ID it read is the
\* user_id of the Issuer's answer for that request's token, not the value the
\* client sent; every stored task belongs to a subject the Issuer named.
C13_HandlerReadsIssuerID ==
    /\ \A r \in Slots :
          reqs[r].handled
          => /\ reqs[r].xuser = reqs[r].answer.body.user_id
             /\ reqs[r].xuser = reqs[r].header.tok.claims.user_id
             /\ reqs[r].res.status = StatusCreated
                => reqs[r].res.body.user_id = reqs[r].answer.body.user_id
    /\ \A t \in tasks : t.user_id \in 1 .. Len(users)

\* A create request that carried X-User-ID of another subject stored a task for
\* the subject of its token.
C13_Witness ==
    \E r \in Slots :
        /\ reqs[r].handled /\ reqs[r].res.status = StatusCreated
        /\ reqs[r].answer.body.user_id = 1
        /\ \E t \in tasks : t.id = reqs[r].res.body.id /\ t.user_id = 1

-----------------------------------------------------------------------------
(* Claims about the notification service *)

\* C14: the process has not died of a map fault, no two subscribe requests are
\* between their read and their write of the map at once, and when no subscribe
\* request is in flight the registry holds, for every (event, URL), at least as
\* many entries as there are subscribe requests answered 201 for it.
C14_RegistryKeepsEveryEntry ==
    /\ hubProc = "serving"
    /\ ~ \E s1, s2 \in SubWorkers :
           s1 # s2 /\ subs[s1].pc = "append" /\ subs[s2].pc = "append"
    /\ (\A s \in SubWorkers : subs[s].pc \in {"idle", "done"})
       => \A req \in Subscriptions :
             Count(Lookup(webhooks, req.event), req.url)
               >= Cardinality({s \in SubWorkers :
                      /\ subs[s].pc = "done" /\ subs[s].req = req
                      /\ subs[s].res.status = StatusCreated})

\* The event and data a publishing request hands to triggerWebhooks, marshalled.
Payload(p) == Marshal([event |-> pubs[p].event, data |-> pubs[p].data])

\* C15: the lookup of a publish starts one delivery unit per entry of the
\* event's list, in order; a unit makes at most one POST, carrying {event, data}
\* of the publish (for POST /api/webhooks/{event}: the path's event and the
\* request body); once it has posted or finished it has made exactly one, and
\* no step of the same publish adds, removes or restarts a unit.
C15_OneAttemptPerEntry ==
    [][\A p \in PubSlots :
         /\ (pubs[p].gpc = "lookup" /\ pubs'[p].gpc = "delivering")
            => /\ DOMAIN pubs'[p].units = DOMAIN webhooks[pubs[p].event]
               /\ \A i \in DOMAIN pubs'[p].units :
                     /\ pubs'[p].units[i].url = webhooks[pubs[p].event][i]
                     /\ pubs'[p].units[i].attempts = 0
         /\ pubs'[p].gpc = "delivering"
            => \A i \in DOMAIN pubs'[p].units :
                  /\ pubs'[p].units[i].attempts <= 1
                  /\ pubs'[p].units[i].state = "spawned" <=> pubs'[p].units[i].attempts = 0
                  /\ pubs'[p].units[i].attempts = 1
                     => /\ pubs'[p].units[i].body = Payload(p)
                        /\ pubs'[p].req.route = "POST /api/webhooks/{event}"
                           => pubs'[p].units[i].body =
                                 Marshal([event |-> pubs'[p].req.event,
                                          data |-> pubs'[p].req.body])
         /\ (pubs[p].gpc = "delivering" /\ pubs'[p].gpc = "delivering")
            => /\ DOMAIN pubs'[p].units = DOMAIN pubs[p].units
               /\ \A i \in DOMAIN pubs[p].units :
                     /\ pubs'[p].units[i].url = pubs[p].units[i].url
                     /\ pubs'[p].units[i].attempts >= pubs[p].units[i].attempts
                     /\ pubs[p].units[i].state \in FinishedStates
                        => pubs'[p].units[i] = pubs[p].units[i]]_vars

\* A publish to two entries is over: each got one POST, one of which failed.
C15_Witness ==
    \E p \in PubSlots :
        /\ pubs[p].gpc = "delivering" /\ Len(pubs[p].units) = 2
        /\ pubs[p].units[1].state = "error" /\ pubs[p].units[1].attempts = 1
        /\ pubs[p].units[2].state = "ok" /\ pubs[p].units[2].attempts = 1

\* C16: while the service runs, a delivery unit that has not posted can post and
\* one that has posted can get any outcome, whatever the other units of the
\* publish are doing (not started, hanging, failed, finished).
C16_UnitsIndependent ==
    \A p \in PubSlots :
        (hubProc = "serving" /\ pubs[p].gpc = "delivering")
        => \A i \in DOMAIN pubs[p].units :
              /\ pubs[p].units[i].state = "spawned" => ENABLED Post(p, i)
              /\ pubs[p].units[i].state = "posted"
                 => \A o \in PostOutcomes : ENABLED PostReturns(p, i, o)

\* The second of two entries has been delivered to while the POST to the first
\* is still hanging.
C16_Witness ==
    \E p \in PubSlots :
        /\ pubs[p].gpc = "delivering" /\ Len(pubs[p].units) = 2
        /\ pubs[p].units[1].state = "posted"
        /\ pubs[p].units[2].state = "ok"

\* C17: while the service runs, a handler that has started its publish can
\* write its response whatever the publish is doing; and a response written is
\* the one the handler computes from the request (for a created notification,
\* with the id it had when the registry was still empty or as it is now),
\* whatever became of the deliveries.
C17_ResponseIndependent ==
    \A p \in PubSlots :
        /\ (hubProc = "serving" /\ pubs[p].hpc = "respond") => ENABLED WriteResponse(p)
        /\ pubs[p].hpc = "done"
           => \/ pubs[p].res = HubHandler(pubs[p].req).res
              \/ /\ pubs[p].req.route = "POST /api/notifications"
                 /\ HubHandler(pubs[p].req).ok
                 /\ pubs[p].res = [HubHandler(pubs[p].req).res EXCEPT !.body.id = 1]

\* The response of a publishing request was written before its goroutine had
\* looked the subscribers up, and there are subscribers.
C17_Witness ==
    \E p \in PubSlots :
        /\ pubs[p].hpc = "done" /\ pubs[p].res.status = StatusOK
        /\ pubs[p].gpc = "lookup"
        /\ pubs[p].event \in DOMAIN webhooks

\* C18: when triggerWebhooks looks up an event that has no key in the registry
\* it ends there: no delivery unit, so no POST, and the registry is the same map
\* as before, with no key for the event.
C18_NoSubscribersNoEffect ==
    [][\A p \in PubSlots :
         /\ (/\ pubs[p].gpc = "lookup" /\ pubs'[p].gpc # "lookup"
             /\ pubs[p].event \notin DOMAIN webhooks)
            => /\ pubs'[p].gpc = "done"
               /\ pubs'[p].units = <<>>
               /\ webhooks' = webhooks
               /\ pubs[p].event \notin DOMAIN webhooks'
         /\ pubs'[p].gpc = "done" => pubs'[p].units = <<>>]_vars

\* A publish of an event nobody subscribed to has ended and was answered 200,
\* while the registry holds entries for another event.
C18_Witness ==
    \E p \in PubSlots :
        /\ pubs[p].gpc = "done" /\ pubs[p].event = "custom.event"
        /\ pubs[p].hpc = "done" /\ pubs[p].res.status = StatusOK
        /\ DOMAIN webhooks # {}

\* C19: a subscribe whose write follows its read with no other write between
\* adds one entry for its URL, also when the list already holds that URL; and
\* a publish starts, for every URL, as many delivery units as the list holds
\* entries for it.
C19_NoDeduplication ==
    [][/\ \A s \in SubWorkers :
            (/\ subs[s].pc = "append" /\ subs'[s].pc = "done"
             /\ subs[s].seen = Lookup(webhooks, subs[s].req.event))
            => /\ Count(webhooks'[subs[s].req.event], subs[s].req.url)
                    = Count(subs[s].seen, subs[s].req.url) + 1
               /\ Len(webhooks'[subs[s].req.event]) = Len(subs[s].seen) + 1
       /\ \A p \in PubSlots :
            (pubs[p].gpc = "lookup" /\ pubs'[p].gpc = "delivering")
            => \A u \in HookURLs :
                  Cardinality({i \in DOMAIN pubs'[p].units : pubs'[p].units[i].url = u})
                    = Count(webhooks[pubs[p].event], u)]_vars

\* The same (event, URL) was registered twice and a publish of the event has
\* posted twice to that URL.
C19_Witness ==
    \E p \in PubSlots, e \in DOMAIN webhooks :
        /\ Len(webhooks[e]) = 2 /\ webhooks[e][1] = webhooks[e][2]
        /\ pubs[p].event = e /\ pubs[p].gpc = "delivering"
        /\ Len(pubs[p].units) = 2
        /\ \A i \in {1, 2} : /\ pubs[p].units[i].url = webhooks[e][1]
                             /\ pubs[p].units[i].attempts = 1

\* A subscribe request that registerWebhookHandler must refuse.
Malformed(req) == IF req = BadJSON THEN TRUE ELSE req.event = "" \/ req.url = ""

\* C20: a subscribe request with an undecodable body, an empty event or an
\* empty URL is answered 400 in the step that receives it and leaves the
\* registry as it is; the registry never holds an empty event or an empty URL.
C20_MalformedSubscribeRefused ==
    [][/\ \A s \in SubWorkers :
            (/\ subs[s].pc \in {"idle", "done"} /\ subs'[s] # subs[s]
             /\ Malformed(subs'[s].req))
            => /\ subs'[s].pc = "done"
               /\ subs'[s].res.status = StatusBadRequest
               /\ webhooks' = webhooks
       /\ \A e \in DOMAIN webhooks' :
            e # "" /\ \A i \in DOMAIN webhooks'[e] : webhooks'[e][i] # ""]_vars

\* A subscribe request with an event but no URL was answered 400 while the
\* registry holds entries.
C20_Witness ==
    \E s \in SubWorkers :
        /\ subs[s].pc = "done" /\ subs[s].req # BadJSON
        /\ subs[s].req.event # "" /\ subs[s].req.url = ""
        /\ subs[s].res.status = StatusBadRequest
        /\ DOMAIN webhooks # {}


\* C21: GET /api/auth/user answers a header that carries a token the Issuer
\* would verify with the row stored now under the token's user id (its stored
\* handle and contact, whatever handle the token carries) or, when no row has
\* that id, with 404; a missing or invalid token is answered 401 whether or not
\* the store can be read; the store is not changed.
Verifies(h, t) ==
    LET s == StripBearer(h) IN
    /\ s.pre = 0 /\ s.tok.kind = "jwt"
    /\ s.tok.sig = SignedString(s.tok.claims, jwtSecret)
    /\ s.tok.claims.nbf <= t /\ t < s.tok.claims.exp
UserStep(fault) == resp'.op = "user" /\ getUserHandler(resp'.req, fault)
C21_ResolveReadsStore ==
    [][\A fault \in {"none", "db"} :
          UserStep(fault) =>
             LET h == resp'.req
                 id == StripBearer(h).tok.claims.user_id
             IN  /\ UNCHANGED <<users, proc, authAttempts, now, gateVars, hubVars, opsVars>>
                 /\ IF h # EmptyHeader /\ Verifies(h, now)
                    THEN IF fault = "none" /\ id \in 1 .. Len(users)
                         THEN /\ resp'.status = StatusOK
                              /\ resp'.body.id = id
                              /\ resp'.body.username = users[id].username
                              /\ resp'.body.email = users[id].email
                         ELSE resp'.status = StatusNotFound
                    ELSE /\ resp'.status = StatusUnauthorized
                         /\ fault = "none"
                         /\ GetUserResponse(h, "db", now).status = StatusUnauthorized]_vars

\* A token that carries a handle the store does not hold for its id was
\* answered with the stored row.
C21_Witness ==
    /\ resp.op = "user" /\ resp.status = StatusOK
    /\ resp.req.tok = Renamed
    /\ resp.body.username = "admin"
    /\ resp.body.email = "admin@taskmanager.com"
    /\ Len(users) = 2


\* C22: an initialization of the store (by the service at start-up or by the
\* initialization script) adds the default subject admin exactly when the store
\* holds no subject, the store is not empty afterwards, and on a store that
\* holds a subject it adds nothing and changes no row.
AdminRow == [id |-> 1, username |-> "admin", email |-> "admin@taskmanager.com",
             password_hash |-> GenerateFromPassword("admin123")]
C22_SeedOnlyWhenEmpty ==
    [][(initDatabase \/ init_db)
       => /\ Len(users') > 0
          /\ Len(users) = 0 => users' = <<AdminRow>>
          /\ Len(users) > 0 => users' = users]_vars

\* The service restarted on a full store: the default subject and every
\* subject registered since are there, and no attempt is counted yet.
C22_Witness ==
    /\ proc = "serving"
    /\ Len(users) = MaxUsers
    /\ users[1] = AdminRow
    /\ TotalAttempts(authAttempts) = 0


\* C23: a registration that stored its row and then failed to read it back or
\* to sign the token is answered 500 without a token and the row stays; no step
\* removes or changes a stored row, so from then on a registration with that
\* handle or that contact is answered 409 and a login with that handle and its
\* passphrase is answered 200.
FailedAfterInsert(r) ==
    /\ r.op = "register" /\ r.status = StatusInternalServerError
    /\ r.body.error \in {"Failed to retrieve created user", "Failed to generate token"}
Stored(req) ==
    \E row \in Rows(users) :
        /\ row.username = req.username /\ row.email = req.email
        /\ CompareHashAndPassword(row.password_hash, req.password)
StaysRegistered ==
    FailedAfterInsert(resp)
    => /\ Stored(resp.req)
       /\ \A req \in SeedRequests :
             (WellFormed(req) /\ (req.username = resp.req.username
                                  \/ req.email = resp.req.email))
             => RegisterOutcome(req, "none", now, now, now).res.status = StatusConflict
       /\ LoginOutcome([username |-> resp.req.username, password |-> resp.req.password],
                       "none", now, now, now).res.status = StatusOK
C23_NothingRolledBack ==
    [][/\ \A i \in 1 .. Len(users) : Len(users') >= i /\ users'[i] = users[i]
       /\ \A fault \in {"reread", "sign"} :
             RegisterStep(fault) => /\ FailedAfterInsert(resp')
                                    /\ NoToken(resp')
                                    /\ Len(users') = Len(users) + 1
       /\ StaysRegistered'
       /\ (RegisterStep("none") /\ WellFormed(resp'.req)
             /\ \E row \in Rows(users) : row.username = resp'.req.username
                                         \/ row.email = resp'.req.email)
             => resp'.status = StatusConflict /\ NoToken(resp')
       /\ (resp'.op = "login" /\ loginHandler(resp'.req, "none", 0, 0)
             /\ \E row \in Rows(users) :
                   /\ row.username = resp'.req.username
                   /\ CompareHashAndPassword(row.password_hash, resp'.req.password))
             => resp'.status = StatusOK /\ HasToken(resp')]_vars

\* A registration failed at the signing of the token after its insert, the
\* service has restarted since, and the row of that registration is stored.
C23_Witness ==
    /\ FailedAfterInsert(resp) /\ resp.body.error = "Failed to generate token"
    /\ Stored(resp.req)
    /\ proc = "serving" /\ TotalAttempts(authAttempts) = 0


\* C24: GET /health of the Issuer, of the task service and of the notification
\* service is answered 200 with the service's name and the time of the answer,
\* whatever Authorization header the request carries or lacks, whenever the
\* service runs; the answer comes without a call to the Issuer and leaves the
\* users table, the tasks table, the webhook registry and every request in
\* progress as they were.
C24_HealthOpenAndInert ==
    [][/\ \A service \in Services, h \in HealthHeaders :
             healthCheck(service, h)
             => /\ probe'.status = StatusOK
                /\ probe'.body.service = service
                /\ probe'.body.timestamp = now
                /\ probe'.req = h
                /\ \A r \in Slots : reqs'[r].calls = reqs[r].calls
                /\ UNCHANGED <<users, proc, authAttempts, now, resp, reqs, tasks,
                               nextTaskID, taskLog, webhooks, hubProc, subs, pubs,
                               deploy>>
       /\ \A service \in Services, h \in HealthHeaders :
             Up(service) => ENABLED healthCheck(service, h)
       /\ probe' # probe => \E service \in Services, h \in HealthHeaders :
                                healthCheck(service, h)]_vars

\* The task service answered a probe that carried no credential while a task
\* and a subscription were stored and a gated request was waiting for the Issuer.
C24_Witness ==
    /\ probe.service = "task-service" /\ probe.req = EmptyHeader
    /\ probe.status = StatusOK
    /\ probe.body = [status |-> "healthy", service |-> "task-service", timestamp |-> now]
    /\ tasks # {} /\ Lookup(webhooks, "notification.read") # <<>>
    /\ \E r \in Slots : reqs[r].pc = "calling"


\* C25: while the notification service runs, every delivery unit a publish has
\* spawned ends: it posts, and then it logs the outcome of its POST or, 10
\* seconds after posting, its timeout, also when the response of the
\* triggering request has long been written. Until it ends, a unit is changed
\* by its own steps and the passing of time only, and it can take its next
\* step whatever the other units do.
Unfinished(p, i) ==
    /\ pubs[p].gpc = "delivering" /\ i \in DOMAIN pubs[p].units
    /\ pubs[p].units[i].state \notin FinishedStates
Ended(p, i) ==
    \/ hubProc # "serving"
    \/ /\ pubs[p].gpc = "delivering" /\ i \in DOMAIN pubs[p].units
       /\ pubs[p].units[i].state \in FinishedStates
       /\ pubs[p].units[i].age <= DeliveryTimeout
OwnStep(p, i) ==
    \/ Post(p, i)
    \/ \E o \in PostOutcomes : PostReturns(p, i, o)
    \/ PostTimesOut(p, i)
    \/ \E d \in Steps : Elapse(d) /\ pubs'[p].units[i].age = pubs[p].units[i].age + d
C25_UnitsEndOnTheirOwn ==
    /\ \A p \in PubSlots, i \in 1 .. MaxHooks : Unfinished(p, i) ~> Ended(p, i)
    /\ [][\A p \in PubSlots, i \in 1 .. MaxHooks :
            Unfinished(p, i)
            => /\ pubs[p].units[i].age <= DeliveryTimeout
               /\ (pubs'[p].gpc # "delivering" \/ i \notin DOMAIN pubs'[p].units
                   \/ pubs'[p].units[i] # pubs[p].units[i]) => OwnStep(p, i)
               /\ hubProc = "serving"
                  => \/ ENABLED Post(p, i)
                     \/ \A o \in PostOutcomes : ENABLED PostReturns(p, i, o)]_vars

\* The response of the request was written, one unit then ran into its timeout
\* while another was still waiting for its subscriber.
C25_Witness ==
    \E p \in PubSlots :
        /\ pubs[p].hpc = "done" /\ pubs[p].gpc = "delivering" /\ Len(pubs[p].units) = 2
        /\ pubs[p].units[1].state = "posted" /\ pubs[p].units[1].age < DeliveryTimeout
        /\ pubs[p].units[2].state = "error" /\ pubs[p].units[2].age = DeliveryTimeout


\* C26 as stated: a run of the deployment script switches the traffic of a
\* service to green only when the health check on green has passed for every
\* service of its list, and a run in which a service failed to deploy to green
\* or failed its health check switches no service.
InList(x) == \E k \in 1 .. Len(deploy.list) : deploy.list[k] = x
C26_SwitchOnlyAfterAllHealthy ==
    \A x \in AllServices :
        deploy.switched[x]
        => /\ \A y \in AllServices : InList(y) => deploy.health[y] = "passed"
           /\ \A y \in AllServices :
                 InList(y) => deploy.up[y] # "failed" /\ deploy.health[y] # "failed"


\* C27 as stated: check_green_health makes at most HEALTH_CHECK_TIMEOUT/10
\* probes of a service and then returns; a run in which a health check failed
\* ends with a status that is not 0 and with every service of its list rolled
\* back to blue.
HealthFailed == \E x \in AllServices : deploy.health[x] = "failed"
BoundedProbes ==
    /\ \A x \in AllServices : deploy.probes[x] <= deploy.timeout \div ProbeInterval
    /\ deploy.pc = "health" /\ deploy.i <= Len(deploy.list)
       => /\ deploy.retries <= deploy.timeout \div ProbeInterval
          /\ deploy.retries = deploy.timeout \div ProbeInterval
             => ENABLED check_green_health_fails /\ ~ENABLED curl("failed")
    /\ HealthFailed => deploy.pc \in {"rollback", "exit"}
Served(r) == reqs[r].pc = "answered" /\ reqs'[r].pc = "done" /\ reqs'[r].handled
C28_TasksIsolated ==
    [][\A r \in Slots :
         Served(r) =>
            LET u == reqs'[r].xuser
                ep == reqs[r].ep
                res == reqs'[r].res
            IN  /\ u = reqs[r].answer.body.user_id
                /\ ep.route = "GET /api/tasks"
                   => /\ res.status = StatusOK
                      /\ res.body = {t \in tasks : t.user_id = u}
                /\ (ep.route \in {"GET /api/tasks/{id}", "PUT /api/tasks/{id}",
                                   "DELETE /api/tasks/{id}"}
                    /\ \E t \in tasks : t.id = ep.id /\ t.user_id # u)
                   => res.status = StatusNotFound /\ tasks' = tasks
                /\ \A t \in tasks' :
                      (\A t0 \in tasks : t0.id # t.id) => t.user_id = u
                /\ \A t0 \in tasks, t \in tasks' : t.id = t0.id => t.user_id = t0.user_id
                /\ \A t0 \in tasks : t0.user_id # u => t0 \in tasks']_vars

\* The default subject asked to delete the task of the registered subject
\* and got 404; the task is there.
C28_Witness ==
    \E r \in Slots :
        /\ reqs[r].pc = "done" /\ reqs[r].handled /\ reqs[r].xuser = 1
        /\ reqs[r].ep.route = "DELETE /api/tasks/{id}"
        /\ reqs[r].res.status = StatusNotFound
        /\ \E t \in tasks : t.id = reqs[r].ep.id /\ t.user_id = 2


\* C30 as stated: no stored task has an empty title, and a create or an update
\* that carries an empty title is refused and leaves the tasks as they were.
C30_TitleNeverEmpty ==
    [][/\ \A t \in tasks' : t.title # ""
       /\ \A r \in Slots :
             (Served(r) /\ reqs[r].ep.route \in {"POST /api/tasks", "PUT /api/tasks/{id}"}
              /\ reqs[r].ep.title = "")
             => reqs'[r].res.status >= StatusBadRequest /\ tasks' = tasks]_vars


\* C29: when the Issuer answers the middleware's call, it answers valid exactly
\* when it would answer valid to the request's own Authorization header at
\* that moment, and the middleware runs the handler exactly when the answer is
\* valid; a request without the header is refused by the middleware as the
\* Issuer would refuse it.
Valid(res) == res.status = StatusOK /\ res.body.valid = TRUE
C29_MiddlewareAgreesWithIssuer ==
    [][\A r \in Slots :
         /\ (reqs[r].pc \in {"idle", "done"} /\ reqs'[r].pc = "done" /\ reqs'[r] # reqs[r])
            => /\ ~reqs'[r].handled
               /\ reqs'[r].header = EmptyHeader
               /\ ~Valid(ValidateResponse(reqs'[r].header, now))
         /\ (reqs[r].pc \in {"idle", "done"} /\ reqs'[r].pc = "calling")
            => reqs'[r].header # EmptyHeader
         /\ (reqs[r].pc = "calling" /\ reqs'[r].pc = "answered")
            => (Accepting(reqs'[r].answer) <=> Valid(ValidateResponse(reqs[r].header, now)))
         /\ (reqs[r].pc = "answered" /\ reqs'[r].pc = "done")
            => (reqs'[r].handled <=> Accepting(reqs[r].answer))]_vars

\* A request whose header was the token without the prefix was let through,
\* and the Issuer, asked directly, had answered that header with valid.
C29_Witness ==
    \E r \in Slots :
        /\ reqs[r].pc = "done" /\ reqs[r].handled
        /\ reqs[r].header.pre = 0 /\ reqs[r].header.tok.kind = "jwt"
        /\ resp.op = "validate" /\ resp.req = reqs[r].header /\ resp.status = StatusOK

====
